---- MODULE Spec2Model ----
(***************************************************************************)
(* A model of rox, a tree-walking interpreter for a Lox dialect:           *)
(* scanner (src/src/scanner.rs), parser (src/src/parser.rs), environment   *)
(* (src/src/interpreter/environment.rs), interpreter                       *)
(* (src/src/interpreter.rs) and the driver (src/src/main.rs).              *)
(*                                                                         *)
(* Characters are one-element strings; a source text is the sequence of    *)
(* its characters.  Indices named as in the code (start, current) count    *)
(* from 0, so the character at index i is chars[i + 1].                    *)
(***************************************************************************)
EXTENDS Integers, Sequences, FiniteSets, TLC

VARIABLES
    scanner,   \* the Scanner struct and the position of scan_tokens
    parser,    \* the Parser struct, the locals of parse() and its result
    interp,    \* the Interpreter struct and the position of interpret()
    stderr,    \* what error::report and eprintln! have written
    session,   \* run_prompt: the state of the interactive loop
    envcall    \* the last Environment call made and what it returned

vars == <<scanner, parser, interp, stderr, session, envcall>>

(***************************************************************************)
(* Bounds                                                                  *)
(***************************************************************************)
MaxSrcLen == 4      \* longest source text enumerated character by character
U32Max == 6         \* stands for u32::MAX, the largest value of Scanner.line

None == "None"

(***************************************************************************)
(* Characters                                                              *)
(***************************************************************************)
NL == "\n"
QUOTE == "\""
TAB == "\t"
CR == "\r"
UE9 == "U+00E9"     \* a non-ASCII character, two bytes in UTF-8
U20AC == "U+20AC"   \* a non-ASCII character, three bytes in UTF-8

Digits == {"0", "1", "2", "3", "4", "5", "6", "7", "8", "9"}
Lower == {"a", "b", "c", "d", "e", "f", "g", "h", "i", "j", "k", "l", "m",
          "n", "o", "p", "q", "r", "s", "t", "u", "v", "w", "x", "y", "z"}
Upper == {"A", "B", "X", "Z"}

\* char::len_utf8
len_utf8(c) == IF c = UE9 THEN 2 ELSE IF c = U20AC THEN 3 ELSE 1

is_digit(c) == c \in Digits

is_alpha(c) == c \in Lower \cup Upper \cup {"_"}

is_alphanumeric(c) == c \in Lower \cup Upper \cup Digits \cup {"_"}

RECURSIVE byte_offset(_, _)
\* the byte index in the String of the character with index i
byte_offset(cs, i) ==
    IF i = 0 THEN 0 ELSE byte_offset(cs, i - 1) + len_utf8(cs[i])

\* String::len: the length of the source in bytes
source_len(cs) == byte_offset(cs, Len(cs))

is_char_boundary(cs, b) == \E i \in 0..Len(cs) : byte_offset(cs, i) = b

\* &source[a..b]: byte indices; panics off a character boundary
str_slice(cs, a, b) ==
    IF a <= b /\ b <= source_len(cs)
       /\ is_char_boundary(cs, a) /\ is_char_boundary(cs, b)
    THEN LET i == CHOOSE k \in 0..Len(cs) : byte_offset(cs, k) = a
             j == CHOOSE k \in 0..Len(cs) : byte_offset(cs, k) = b
         IN  [ok |-> TRUE, text |-> SubSeq(cs, i + 1, j)]
    ELSE [ok |-> FALSE, text |-> <<>>]

(***************************************************************************)
(* Numbers.  A Number is kept as the pair <<numerator, denominator>> of    *)
(* the decimal it was written as, in lowest terms.                         *)
(***************************************************************************)
RECURSIVE gcd(_, _)
gcd(a, b) == IF b = 0 THEN a ELSE gcd(b, a % b)

abs(n) == IF n < 0 THEN -n ELSE n

rat(n, d) ==
    LET g == gcd(abs(n), abs(d))
        s == IF d < 0 THEN -1 ELSE 1
    IN  <<(s * n) \div g, (s * d) \div g>>

digit_value(c) == CHOOSE v \in 0..9 : <<"0", "1", "2", "3", "4", "5", "6", "7", "8", "9">>[v + 1] = c

RECURSIVE digits_value(_)
digits_value(ds) ==
    IF ds = <<>> THEN 0
    ELSE 10 * digits_value(SubSeq(ds, 1, Len(ds) - 1)) + digit_value(ds[Len(ds)])

RECURSIVE pow10(_)
pow10(k) == IF k = 0 THEN 1 ELSE 10 * pow10(k - 1)

\* str::parse::<f32> on the texts a scan can slice: digits with at most one '.'
parse_f32(text) ==
    LET dots == {i \in 1..Len(text) : text[i] = "."}
        ok == /\ text # <<>>
              /\ \A i \in 1..Len(text) : is_digit(text[i]) \/ text[i] = "."
              /\ Cardinality(dots) <= 1
              /\ \E i \in 1..Len(text) : is_digit(text[i])
    IN  IF ~ok THEN [ok |-> FALSE, n |-> <<0, 1>>]
        ELSE IF dots = {} THEN [ok |-> TRUE, n |-> rat(digits_value(text), 1)]
        ELSE LET p == CHOOSE i \in dots : TRUE
                 whole == SubSeq(text, 1, p - 1)
                 frac == SubSeq(text, p + 1, Len(text))
             IN  [ok |-> TRUE,
                  n |-> rat(digits_value(whole) * pow10(Len(frac)) + digits_value(frac),
                            pow10(Len(frac)))]

\* f32 arithmetic on the decimals kept exactly
f32_neg(a) == <<-a[1], a[2]>>
f32_add(a, b) == rat(a[1] * b[2] + b[1] * a[2], a[2] * b[2])
f32_sub(a, b) == rat(a[1] * b[2] - b[1] * a[2], a[2] * b[2])
f32_mul(a, b) == rat(a[1] * b[1], a[2] * b[2])
\* division that drops the fraction of the quotient
f32_div_truncated(a, b) == rat((a[1] * b[2]) \div (a[2] * b[1]), 1)
f32_div(a, b) == rat(a[1] * b[2], a[2] * b[1])
f32_lt(a, b) == a[1] * b[2] < b[1] * a[2]
f32_is_zero(a) == a[1] = 0

DigitChars == <<"0", "1", "2", "3", "4", "5", "6", "7", "8", "9">>

RECURSIVE digits_of(_)
\* the decimal digits of a natural number
digits_of(n) ==
    IF n < 10 THEN <<DigitChars[n + 1]>>
    ELSE digits_of(n \div 10) \o <<DigitChars[(n % 10) + 1]>>

\* the least k with den dividing 10^k, -1 when there is none up to 6
decimal_places(den) ==
    IF \E k \in 0..6 : pow10(k) % den = 0
    THEN CHOOSE k \in 0..6 : pow10(k) % den = 0 /\ \A j \in 0..(k - 1) : pow10(j) % den # 0
    ELSE -1

\* the digits after the point of frac / 10^k, k digits
fraction_digits(frac, k) ==
    [i \in 1..k |-> DigitChars[((frac \div pow10(k - i)) % 10) + 1]]

\* f32::to_string: the shortest decimal that reads back as the number; a
\* number with no finite decimal is written as the fraction it stands for
f32_to_string(a) ==
    LET k == decimal_places(a[2])
        scaled == (abs(a[1]) * pow10(k)) \div a[2]
        sign == IF a[1] < 0 THEN <<"-">> ELSE <<>>
    IN  IF k = -1 THEN sign \o digits_of(abs(a[1])) \o <<"/">> \o digits_of(a[2])
        ELSE IF k = 0 THEN sign \o digits_of(abs(a[1]))
        ELSE sign \o digits_of(scaled \div pow10(k)) \o <<".">>
             \o fraction_digits(scaled % pow10(k), k)

(***************************************************************************)
(* Tokens (src/src/token.rs)                                               *)
(***************************************************************************)
Token(tag, val, line) == [tag |-> tag, val |-> val, line |-> line]

\* a token type without payload
Plain(tag) == [tag |-> tag, val |-> <<>>]

Identifer(text) == [tag |-> "Identifer", val |-> text]
StringTok(text) == [tag |-> "STRING", val |-> text]
Number(n) == [tag |-> "Number", val |-> n]

\* Display for TokenType: the text of each token type without payload
TokenTypeText ==
    ( "LeftParen" :> <<"(">>
   @@ "RightParen" :> <<")">>
   @@ "LeftBrace" :> <<"{">>
   @@ "RightBrace" :> <<"}">>
   @@ "Comma" :> <<",">>
   @@ "Dot" :> <<".">>
   @@ "Minus" :> <<"-">>
   @@ "Plus" :> <<"+">>
   @@ "Semicolon" :> <<";">>
   @@ "Slash" :> <<"/">>
   @@ "Star" :> <<"*">>
   @@ "Bang" :> <<"!">>
   @@ "BangEqual" :> <<"!", "=">>
   @@ "Equal" :> <<"=">>
   @@ "EqualEqual" :> <<"=", "=">>
   @@ "Greater" :> <<">">>
   @@ "GreaterEqual" :> <<">", "=">>
   @@ "Less" :> <<"<">>
   @@ "LessEqual" :> <<"<", "=">>
   @@ "And" :> <<"a", "n", "d">>
   @@ "Class" :> <<"c", "l", "a", "s", "s">>
   @@ "Else" :> <<"e", "l", "s", "e">>
   @@ "False" :> <<"f", "a", "l", "s", "e">>
   @@ "Fun" :> <<"f", "u", "n">>
   @@ "For" :> <<"f", "o", "r">>
   @@ "If" :> <<"i", "f">>
   @@ "Nil" :> <<"n", "i", "l">>
   @@ "Or" :> <<"o", "r">>
   @@ "Print" :> <<"p", "r", "i", "n", "t">>
   @@ "Return" :> <<"r", "e", "t", "u", "r", "n">>
   @@ "Super" :> <<"s", "u", "p", "e", "r">>
   @@ "This" :> <<"t", "h", "i", "s">>
   @@ "True" :> <<"t", "r", "u", "e">>
   @@ "Var" :> <<"v", "a", "r">>
   @@ "While" :> <<"w", "h", "i", "l", "e">>
   @@ "EOF" :> <<"E", "O", "F">>
   @@ "Colon" :> <<":">>
   @@ "QuestionMark" :> <<"?">> )

\* Display for TokenType
TokenType_fmt(t) ==
    IF t.tag \in {"Identifer", "STRING"} THEN t.val
    ELSE IF t.tag = "Number" THEN f32_to_string(t.val)
    ELSE TokenTypeText[t.tag]

\* the table built by lazy_static! in scanner.rs, one entry per insert ("if" is
\* inserted twice, with the same value)
KEYWORDS ==
    ( <<"f", "o", "r">> :> "For"
   @@ <<"f", "u", "n">> :> "Fun"
   @@ <<"i", "f">> :> "If"
   @@ <<"o", "r">> :> "Or"
   @@ <<"n", "i", "l">> :> "Nil"
   @@ <<"p", "r", "i", "n", "t">> :> "Print"
   @@ <<"r", "e", "t", "u", "r", "n">> :> "Return"
   @@ <<"s", "u", "p", "e", "r">> :> "Super"
   @@ <<"t", "h", "i", "s">> :> "This"
   @@ <<"t", "r", "u", "e">> :> "True"
   @@ <<"f", "a", "l", "s", "e">> :> "False"
   @@ <<"v", "a", "r">> :> "Var"
   @@ <<"w", "h", "i", "l", "e">> :> "While" )

\* error::report(line, message)
report(err, line, message) == Append(err, [line |-> line, message |-> message])

(***************************************************************************)
(* Scanner (src/src/scanner.rs).  A scanner value is the struct plus       *)
(* pc, the position of scan_tokens: "scan" at the head of its loop,        *)
(* "string" inside the loop of handle_string, "done" once it has returned, *)
(* "panic" once an index or a slice went out of range; err collects the    *)
(* reports made.                                                           *)
(***************************************************************************)
Scanner_new(cs) ==
    [chars |-> cs, tokens |-> <<>>, start |-> 0, current |-> 0, line |-> 0,
     pc |-> "scan", err |-> <<>>]

panic(s) == [s EXCEPT !.pc = "panic"]

Scanner_is_at_end(s) == s.current >= source_len(s.chars)

\* the character returned is chars[current - 1] of the struct afterwards
Scanner_advance(s) ==
    IF s.current + 1 <= Len(s.chars)
    THEN [s EXCEPT !.current = @ + 1]
    ELSE panic([s EXCEPT !.current = @ + 1])

match_char(s, expected) ==
    IF Scanner_is_at_end(s) THEN [matched |-> FALSE, s |-> s]
    ELSE IF s.current >= Len(s.chars) THEN [matched |-> FALSE, s |-> panic(s)]
    ELSE IF s.chars[s.current + 1] # expected THEN [matched |-> FALSE, s |-> s]
    ELSE [matched |-> TRUE, s |-> [s EXCEPT !.current = @ + 1]]

Scanner_peek(s) ==
    IF s.current < Len(s.chars) THEN s.chars[s.current + 1] ELSE None

peek_next(s) ==
    IF s.current + 1 < Len(s.chars) THEN s.chars[s.current + 2] ELSE None

add_token(s, t) ==
    [s EXCEPT !.tokens = Append(@, Token(t.tag, t.val, s.line))]

RECURSIVE handle_block_comment_flat(_)
\* a block comment that ends at the first "*/", whatever it opened inside
handle_block_comment_flat(s) ==
    LET c == Scanner_peek(s)
        n == peek_next(s)
    IN  IF c = None THEN s
        ELSE IF c = "*" /\ n = "/" THEN [s EXCEPT !.current = @ + 2]
        ELSE IF c = NL
             THEN handle_block_comment_flat(
                      [s EXCEPT !.line = @ + 1, !.current = @ + 1])
        ELSE handle_block_comment_flat([s EXCEPT !.current = @ + 1])

RECURSIVE handle_block_comment(_)
handle_block_comment(s) ==
    LET c == Scanner_peek(s)
        n == peek_next(s)
    IN  IF c = None THEN s
        ELSE IF c = "*" /\ n = "/" THEN [s EXCEPT !.current = @ + 2]
        ELSE IF c = "/" /\ n = "*"
             THEN handle_block_comment(
                      handle_block_comment([s EXCEPT !.current = @ + 2]))
        ELSE IF c = NL
             THEN handle_block_comment(
                      [s EXCEPT !.line = @ + 1, !.current = @ + 1])
        ELSE handle_block_comment([s EXCEPT !.current = @ + 1])

RECURSIVE line_comment(_)
\* the loop of the "//" arm: advance up to, not over, the next newline
line_comment(s) ==
    LET c == Scanner_peek(s)
    IN  IF c = None \/ c = NL THEN s
        ELSE line_comment([s EXCEPT !.current = @ + 1])

RECURSIVE take_numbers(_)
take_numbers(s) ==
    LET c == Scanner_peek(s)
    IN  IF c # None /\ is_digit(c)
        THEN take_numbers([s EXCEPT !.current = @ + 1])
        ELSE s

handle_number(s) ==
    LET s1 == take_numbers(s)
        s2 == IF Scanner_peek(s1) = "." /\ peek_next(s1) # None
                 /\ is_digit(peek_next(s1))
              THEN take_numbers([s1 EXCEPT !.current = @ + 1])
              ELSE s1
        lit == str_slice(s2.chars, s2.start, s2.current)
        n == parse_f32(lit.text)
    IN  IF ~lit.ok THEN panic(s2)
        ELSE IF n.ok THEN add_token(s2, Number(n.n))
        ELSE s2

RECURSIVE identifier_loop(_)
identifier_loop(s) ==
    LET c == Scanner_peek(s)
    IN  IF c # None /\ is_alphanumeric(c)
        THEN identifier_loop([s EXCEPT !.current = @ + 1])
        ELSE s

handle_identifier(s) ==
    LET s1 == identifier_loop(s)
        lit == str_slice(s1.chars, s1.start, s1.current)
    IN  IF ~lit.ok THEN panic(s1)
        ELSE IF lit.text \in DOMAIN KEYWORDS
             THEN add_token(s1, Plain(KEYWORDS[lit.text]))
        ELSE add_token(s1, Identifer(lit.text))

\* what handle_string does once its loop has ended
handle_string_end(s) ==
    IF Scanner_is_at_end(s)
    THEN [s EXCEPT !.err = report(@, s.line, "Unterminated string"), !.pc = "scan"]
    ELSE LET s1 == Scanner_advance(s)
             value == str_slice(s1.chars, s1.start + 1, s1.current - 1)
         IN  IF s1.pc = "panic" THEN s1
             ELSE IF ~value.ok THEN panic(s1)
             ELSE [add_token(s1, StringTok(value.text)) EXCEPT !.pc = "scan"]

\* one test of the loop of handle_string, and its body or what follows the loop
handle_string(s) ==
    LET c == Scanner_peek(s)
    IN  IF c = None \/ c = QUOTE THEN handle_string_end(s)
        ELSE IF c = NL THEN [s EXCEPT !.line = @ + 1]
        ELSE [s EXCEPT !.current = @ + 1]

\* '!', '=', '<', '>': one character of lookahead decides
two_char(s, withEq, alone) ==
    LET m == match_char(s, "=")
    IN  IF m.s.pc = "panic" THEN m.s
        ELSE add_token(m.s, Plain(IF m.matched THEN withEq ELSE alone))

SingleChar ==
    ( "(" :> "LeftParen" @@ ")" :> "RightParen" @@ "{" :> "LeftBrace"
   @@ "}" :> "RightBrace" @@ "," :> "Comma" @@ "." :> "Dot" @@ "-" :> "Minus"
   @@ "+" :> "Plus" @@ ";" :> "Semicolon" @@ "*" :> "Star"
   @@ "?" :> "QuestionMark" @@ ":" :> "Colon" )

scan_token(s) ==
    LET a == Scanner_advance(s)
        c == a.chars[a.current]
    IN  IF a.pc = "panic" THEN a
        ELSE IF c \in DOMAIN SingleChar THEN add_token(a, Plain(SingleChar[c]))
        ELSE IF c = "!" THEN two_char(a, "BangEqual", "Bang")
        ELSE IF c = "=" THEN two_char(a, "EqualEqual", "Equal")
        ELSE IF c = "<" THEN two_char(a, "LessEqual", "Less")
        ELSE IF c = ">" THEN two_char(a, "GreaterEqual", "Greater")
        ELSE IF c = "/"
             THEN LET m == match_char(a, "/")
                      k == match_char(m.s, "*")
                  IN  IF m.s.pc = "panic" THEN m.s
                      ELSE IF m.matched THEN line_comment(m.s)
                      ELSE IF k.s.pc = "panic" THEN k.s
                      ELSE IF k.matched THEN handle_block_comment(k.s)
                      ELSE add_token(k.s, Plain("Slash"))
        ELSE IF c = NL THEN [a EXCEPT !.line = @ + 1]
        ELSE IF c \in {TAB, CR, " "} THEN a
        ELSE IF c = QUOTE THEN [a EXCEPT !.pc = "string"]
        ELSE IF is_digit(c) THEN handle_number(a)
        ELSE IF is_alpha(c) THEN handle_identifier(a)
        ELSE [a EXCEPT !.err = report(@, a.line, <<"Unexpected character: ", c>>)]

\* one step of scan_tokens: a turn of its loop, a turn of the loop of
\* handle_string, or the EOF token and the return
scan_step(s) ==
    IF s.pc = "string" THEN handle_string(s)
    ELSE IF Scanner_is_at_end(s)
         THEN [add_token(s, Plain("EOF")) EXCEPT !.pc = "done"]
    ELSE scan_token([s EXCEPT !.start = s.current])

\* handle_string has reached a newline: its loop adds one to line and does not
\* advance, so it never ends
string_spins(s) == s.pc = "string" /\ Scanner_peek(s) = NL

RECURSIVE scan_tokens(_)
\* scan_tokens run to its end: pc is "done", "panic", or "string" when
\* handle_string spins
scan_tokens(s) ==
    IF s.pc \in {"done", "panic"} \/ string_spins(s) THEN s
    ELSE scan_tokens(scan_step(s))

(***************************************************************************)
(* Expressions and statements (src/src/expr.rs, src/src/statement.rs).     *)
(* An optional value is <<>> or <<v>>.                                     *)
(***************************************************************************)
LitTrue == [type |-> "True"]
LitFalse == [type |-> "False"]
LitNil == [type |-> "Nil"]
LitString(s) == [type |-> "STRING", s |-> s]
LitNumber(n) == [type |-> "Number", n |-> n]

Literal(v) == [kind |-> "Literal", value |-> v]
Variable(token) == [kind |-> "Variable", token |-> token]
Assign(name, value) == [kind |-> "Assign", name |-> name, value |-> value]
Unary(operator, operand) ==
    [kind |-> "Unary", operator |-> operator, operand |-> operand]
Binary(left, operator, right) ==
    [kind |-> "Binary", left |-> left, operator |-> operator, right |-> right]
Grouping(expr) == [kind |-> "Grouping", expr |-> expr]
Ternary(condition, true_expr, false_expr) ==
    [kind |-> "Ternary", condition |-> condition, true_expr |-> true_expr,
     false_expr |-> false_expr]

StmtExpr(e) == [kind |-> "Expr", expr |-> e]
StmtPrint(e) == [kind |-> "Print", expr |-> e]
VarDec(name, initializer) ==
    [kind |-> "VarDec", name |-> name, initializer |-> initializer]

(***************************************************************************)
(* Parser (src/src/parser.rs).  A parser value p is the struct plus err,   *)
(* the diagnostics written so far; a ParseResult is Ok(val) or Err(val)    *)
(* together with the parser as the call left it.                           *)
(***************************************************************************)
Parser_new(tokens) == [tokens |-> tokens, current |-> 0, err |-> <<>>]

Ok(val, p) == [ok |-> TRUE, val |-> val, p |-> p]
Err(msg, p) == [ok |-> FALSE, val |-> msg, p |-> p]

\* eprintln!: a line on the diagnostic stream that cites no line number
eprintln(err, message) == Append(err, [line |-> -1, message |-> message])

Parser_peek(p) ==
    IF p.current < Len(p.tokens) THEN <<p.tokens[p.current + 1]>> ELSE <<>>

\* the token matched, or <<>>, and the parser afterwards
match_token(p, types) ==
    IF Parser_peek(p) # <<>> /\ Parser_peek(p)[1].tag \in types
    THEN [matched |-> Parser_peek(p), p |-> [p EXCEPT !.current = @ + 1]]
    ELSE [matched |-> <<>>, p |-> p]

Parser_is_at_end(p) ==
    Parser_peek(p) = <<>> \/ Parser_peek(p)[1].tag = "EOF"

Parser_advance(p) ==
    IF Parser_is_at_end(p) THEN p ELSE [p EXCEPT !.current = @ + 1]

consume(p, tag, err_message) ==
    IF Parser_peek(p) # <<>> /\ Parser_peek(p)[1].tag = tag
    THEN Ok(<<>>, [p EXCEPT !.current = @ + 1])
    ELSE Err(err_message, p)

consume_identifier(p, err_message) ==
    IF Parser_peek(p) # <<>> /\ Parser_peek(p)[1].tag = "Identifer"
    THEN Ok(Parser_peek(p)[1].val, [p EXCEPT !.current = @ + 1])
    ELSE Err(err_message, p)

with_report(p, line, message) == [p EXCEPT !.err = report(@, line, message)]

\* r?: the rest K of the function runs on Ok, an Err is returned as it is
try(r, K(_)) == IF r.ok THEN K(r) ELSE r

\* let v = ...; the rest K of the function
bind(v, K(_)) == K(v)

RECURSIVE call(_, _, _)
\* The functions of the expression grammar call one another through call, the
\* dispatch on the name of the function called: call("unary", p, <<>>) is
\* self.unary() on the parser p, and call("equality_loop", p, expr) is the
\* while loop of equality entered with expr.

\* self.comparison().and_then(|_| self.expression())
recover(p) ==
    try(call("comparison", p, <<>>), LAMBDA c : call("expression", c.p, <<>>))

expression(p) == call("assignment", p, <<>>)

\* assignment with an invalid target made an error of the parse
assignment_rejecting_target(p) ==
    try(call("ternary", p, <<>>), LAMBDA e :
        LET m == match_token(e.p, {"Equal"})
        IN  IF m.matched = <<>> THEN e
            ELSE try(call("assignment", m.p, <<>>), LAMBDA v :
                     IF e.val.kind = "Variable"
                     THEN Ok(Assign(e.val.token, v.val), v.p)
                     ELSE Err("invalid assignment target",
                              [v.p EXCEPT !.err =
                                  eprintln(@, "invalid assignment target")])))

assignment(p) ==
    try(call("ternary", p, <<>>), LAMBDA e :
        LET m == match_token(e.p, {"Equal"})
        IN  IF m.matched = <<>> THEN e
            ELSE try(call("assignment", m.p, <<>>), LAMBDA v :
                     IF e.val.kind = "Variable"
                     THEN Ok(Assign(e.val.token, v.val), v.p)
                     ELSE Ok(e.val, [v.p EXCEPT !.err =
                                        eprintln(@, "invalid assignment target")])))

ternary(p) ==
    try(call("equality", p, <<>>), LAMBDA condition :
        LET m == match_token(condition.p, {"QuestionMark"})
            line == m.matched[1].line
        IN  IF m.matched = <<>> THEN condition
            ELSE try(call("equality", m.p, <<>>), LAMBDA true_expr :
                     LET consumed ==
                             consume(true_expr.p, "Colon",
                                 <<"uh oh expected ':' in ternary expression, line: ", line>>)
                     IN  IF ~consumed.ok
                         THEN Err(consumed.val,
                                  with_report(consumed.p, line, consumed.val))
                         ELSE try(call("equality", consumed.p, <<>>), LAMBDA false_expr :
                                  Ok(Ternary(condition.val, true_expr.val, false_expr.val),
                                     false_expr.p))))

\* EqualityOps with the assignment sign taken for an equality operator
EqualityOps_with_equal == {"BangEqual", "EqualEqual", "Equal"}

EqualityOps == {"BangEqual", "EqualEqual"}

\* the while loop of equality
equality_loop(p, expr) ==
    LET m == match_token(p, EqualityOps)
    IN  IF m.matched = <<>> THEN Ok(expr, p)
        ELSE try(call("comparison", m.p, <<>>), LAMBDA right_expr :
                 call("equality_loop", right_expr.p,
                     Binary(expr, m.matched[1], right_expr.val)))

equality(p) ==
    LET m == match_token(p, EqualityOps)
    IN  IF m.matched # <<>>
        THEN recover(with_report(m.p, m.matched[1].line,
                 "missing left-hand-side operand for equality expression"))
        ELSE try(call("comparison", p, <<>>), LAMBDA expr :
                 call("equality_loop", expr.p, expr.val))

\* ComparisonOps with one operator of the tier left out of the list
ComparisonOps_without_greater_equal == {"Greater", "Less", "LessEqual"}

ComparisonOps == {"Greater", "GreaterEqual", "Less", "LessEqual"}

\* the while loop of comparison
comparison_loop(p, expr) ==
    LET m == match_token(p, ComparisonOps)
    IN  IF m.matched = <<>> THEN Ok(expr, p)
        ELSE try(call("addition", m.p, <<>>), LAMBDA right_expr :
                 call("comparison_loop", right_expr.p,
                     Binary(expr, m.matched[1], right_expr.val)))

comparison(p) ==
    LET m == match_token(p, ComparisonOps)
    IN  IF m.matched # <<>>
        THEN recover(with_report(m.p, m.matched[1].line,
                 "missing left-hand-side operand for comparison expression"))
        ELSE try(call("addition", p, <<>>), LAMBDA expr :
                 call("comparison_loop", expr.p, expr.val))

AdditionOps == {"Plus", "Minus"}

\* the while loop of addition
addition_loop(p, expr) ==
    LET m == match_token(p, AdditionOps)
    IN  IF m.matched = <<>> THEN Ok(expr, p)
        ELSE try(call("multiplication", m.p, <<>>), LAMBDA right_expr :
                 call("addition_loop", right_expr.p,
                     Binary(expr, m.matched[1], right_expr.val)))

addition(p) ==
    LET m == match_token(p, {"Plus"})
    IN  IF m.matched # <<>>
        THEN recover(with_report(m.p, m.matched[1].line,
                 "missing left-hand-side operand for addition expression"))
        ELSE try(call("multiplication", p, <<>>), LAMBDA expr :
                 call("addition_loop", expr.p, expr.val))

\* MultiplicationOps with the operator of the tier above in its list
MultiplicationOps_with_plus == {"Slash", "Star", "Plus"}

MultiplicationOps == {"Slash", "Star"}

\* the while loop of multiplication
multiplication_loop(p, expr) ==
    LET m == match_token(p, MultiplicationOps)
    IN  IF m.matched = <<>> THEN Ok(expr, p)
        ELSE try(call("unary", m.p, <<>>), LAMBDA right_expr :
                 call("multiplication_loop", right_expr.p,
                     Binary(expr, m.matched[1], right_expr.val)))

multiplication(p) ==
    LET m == match_token(p, MultiplicationOps)
    IN  IF m.matched # <<>>
        THEN recover(with_report(m.p, m.matched[1].line,
                 "missing left-hand-side operand for multiplication expression"))
        ELSE try(call("unary", p, <<>>), LAMBDA expr :
                 call("multiplication_loop", expr.p, expr.val))

unary(p) ==
    LET m == match_token(p, {"Bang", "Minus"})
    IN  IF m.matched = <<>> THEN call("primary", p, <<>>)
        ELSE try(call("unary", m.p, <<>>), LAMBDA operand :
                 Ok(Unary(m.matched[1], operand.val), operand.p))

primary(p) ==
    LET next == [p EXCEPT !.current = @ + 1]
        token == Parser_peek(p)[1]
    IN  IF Parser_peek(p) = <<>>
        THEN Err("unexpected end of input",
                 with_report(p, 0, "unexpected end of input"))
        ELSE IF token.tag = "True" THEN Ok(Literal(LitTrue), next)
        ELSE IF token.tag = "False" THEN Ok(Literal(LitFalse), next)
        ELSE IF token.tag = "Number" THEN Ok(Literal(LitNumber(token.val)), next)
        ELSE IF token.tag = "Nil" THEN Ok(Literal(LitNil), next)
        ELSE IF token.tag = "STRING" THEN Ok(Literal(LitString(token.val)), next)
        ELSE IF token.tag = "Identifer" THEN Ok(Variable(token), next)
        ELSE IF token.tag = "LeftParen"
             THEN try(call("expression", next, <<>>), LAMBDA inner :
                      LET closed == consume(inner.p, "RightParen",
                                            "expected ')' after expression")
                      IN  IF closed.ok THEN Ok(Grouping(inner.val), closed.p)
                          ELSE Err(closed.val,
                                   with_report(closed.p, token.line, closed.val)))
        ELSE Err(<<"unexpected '", TokenType_fmt(token), "'">>,
                 with_report(p, token.line,
                             <<"unexpected '", TokenType_fmt(token), "'">>))

call(fn, p, expr) ==
    CASE fn = "expression" -> expression(p)
      [] fn = "assignment" -> assignment(p)
      [] fn = "ternary" -> ternary(p)
      [] fn = "equality" -> equality(p)
      [] fn = "equality_loop" -> equality_loop(p, expr)
      [] fn = "comparison" -> comparison(p)
      [] fn = "comparison_loop" -> comparison_loop(p, expr)
      [] fn = "addition" -> addition(p)
      [] fn = "addition_loop" -> addition_loop(p, expr)
      [] fn = "multiplication" -> multiplication(p)
      [] fn = "multiplication_loop" -> multiplication_loop(p, expr)
      [] fn = "unary" -> unary(p)
      [] fn = "primary" -> primary(p)

StatementStart ==
    {"Class", "Fun", "Var", "For", "If", "While", "Print", "Return"}

RECURSIVE synchronize_past_semicolon(_)
\* synchronize without the arm of the statement-start keywords
synchronize_past_semicolon(p) ==
    IF Parser_peek(p) = <<>> THEN p
    ELSE IF Parser_peek(p)[1].tag \in {"EOF", "Semicolon"} THEN Parser_advance(p)
    ELSE synchronize_past_semicolon(Parser_advance(p))

RECURSIVE synchronize(_)
synchronize(p) ==
    IF Parser_peek(p) = <<>> THEN p
    ELSE IF Parser_peek(p)[1].tag \in {"EOF", "Semicolon"} THEN Parser_advance(p)
    ELSE IF Parser_peek(p)[1].tag \in StatementStart THEN p
    ELSE synchronize(Parser_advance(p))

SemicolonExpected == "expected a semicolon following statement"

finish_var_declaration(p) ==
    try(consume_identifier(p, "expected an identifer after 'var' keyword"),
        LAMBDA name :
        LET m == match_token(name.p, {"Equal"})
        IN  IF m.matched = <<>>
            THEN try(consume(name.p, "Semicolon", SemicolonExpected), LAMBDA semi :
                     Ok(VarDec(name.val, <<>>), semi.p))
            ELSE try(call("expression", m.p, <<>>), LAMBDA initializer :
                     try(consume(initializer.p, "Semicolon", SemicolonExpected),
                         LAMBDA semi :
                         Ok(VarDec(name.val, <<initializer.val>>), semi.p))))

finish_print_statement(p) ==
    try(call("expression", p, <<>>), LAMBDA expr :
        try(consume(expr.p, "Semicolon", SemicolonExpected), LAMBDA semi :
            Ok(StmtPrint(expr.val), semi.p)))

expression_statement(p) ==
    try(call("expression", p, <<>>), LAMBDA expr :
        try(consume(expr.p, "Semicolon", SemicolonExpected), LAMBDA semi :
            Ok(StmtExpr(expr.val), semi.p)))

statement(p) ==
    LET m == match_token(p, {"Print"})
    IN  IF m.matched # <<>> THEN finish_print_statement(m.p)
        ELSE expression_statement(p)

\* let stmt = if self.match_token(&[Var]).is_some() { ... } else { ... }
declaration_stmt(p) ==
    LET m == match_token(p, {"Var"})
    IN  IF m.matched # <<>> THEN finish_var_declaration(m.p) ELSE statement(p)

declaration(p) ==
    bind(declaration_stmt(p), LAMBDA stmt :
         IF stmt.ok THEN stmt ELSE [stmt EXCEPT !.p = synchronize(stmt.p)])

AggregateFailure == "Parsing error(s) found"

\* one turn of the loop of parse(): st is the parser with the locals stmts and
\* has_parse_error
parse_turn(st) ==
    bind(declaration([tokens |-> st.tokens, current |-> st.current, err |-> st.err]),
         LAMBDA d :
         IF d.ok
         THEN [st EXCEPT !.current = d.p.current, !.err = d.p.err,
                         !.stmts = Append(@, d.val)]
         ELSE [st EXCEPT !.current = d.p.current,
                         !.err = eprintln(d.p.err, d.val),
                         !.has_parse_error = TRUE])

\* parse_return without the test of has_parse_error
parse_return_unchecked(st) == [ok |-> TRUE, val |-> st.stmts]

\* what parse() returns when its loop has ended
parse_return(st) ==
    IF st.has_parse_error
    THEN [ok |-> FALSE, val |-> AggregateFailure]
    ELSE [ok |-> TRUE, val |-> st.stmts]

(***************************************************************************)
(* LiteralValue (src/src/expr.rs)                                          *)
(***************************************************************************)
is_truthy(v) == v.type \notin {"False", "Nil"}

is_number(v) == v.type = "Number"

\* From<bool> for LiteralValue
from_bool(b) == IF b THEN LitTrue ELSE LitFalse

\* Display for LiteralValue
LiteralValue_fmt(v) ==
    IF v.type = "True" THEN <<"t", "r", "u", "e">>
    ELSE IF v.type = "False" THEN <<"f", "a", "l", "s", "e">>
    ELSE IF v.type = "Nil" THEN <<"n", "i", "l">>
    ELSE IF v.type = "STRING" THEN v.s
    ELSE f32_to_string(v.n)

(***************************************************************************)
(* print (src/src/expr.rs): an expression written as a parenthesized       *)
(* prefix form                                                              *)
(***************************************************************************)
RECURSIVE print_ast(_)
RECURSIVE parenthesize_loop(_)
\* for e in exprs { res += " "; res += &print_ast(e); }
parenthesize_loop(exprs) ==
    IF exprs = <<>> THEN <<>>
    ELSE <<" ">> \o print_ast(Head(exprs)) \o parenthesize_loop(Tail(exprs))

parenthesize(name, exprs) == <<"(">> \o name \o parenthesize_loop(exprs) \o <<")">>

print_ast(e) ==
    IF e.kind = "Binary"
    THEN parenthesize(TokenType_fmt(e.operator), <<e.left, e.right>>)
    ELSE IF e.kind = "Unary" THEN parenthesize(TokenType_fmt(e.operator), <<e.operand>>)
    ELSE IF e.kind = "Literal" THEN LiteralValue_fmt(e.value)
    ELSE IF e.kind = "Grouping"
    THEN parenthesize(<<"g", "r", "o", "u", "p", "i", "n", "g">>, <<e.expr>>)
    ELSE parenthesize(<<"?">>, <<e.condition, e.true_expr, e.false_expr>>)

(***************************************************************************)
(* Environment (src/src/interpreter/environment.rs).  globals is a         *)
(* function from the names bound to their values.                          *)
(***************************************************************************)
Environment_new == [globals |-> [k \in {} |-> LitNil]]

contains_key(globals, key) == key \in DOMAIN globals

\* HashMap::insert
insert(globals, key, value) ==
    [k \in DOMAIN globals \cup {key} |-> IF k = key THEN value ELSE globals[k]]

\* TokenType::get_identifier_value: the name of an Identifer, no value otherwise
get_identifier_value(tag) == IF tag.tag = "Identifer" THEN <<tag.val>> ELSE <<>>

not_defined(line, var_name) ==
    <<"[line ", line, "] Error: variable '", var_name, "' is not defined">>

\* define(key, value), value being <<>> or <<v>>: the environment afterwards
define(env, key, value) ==
    [env EXCEPT !.globals = insert(@, key, IF value = <<>> THEN LitNil ELSE value[1])]

\* get(token): Ok(value), Err(message), or the panic of expect()
get(env, token) ==
    IF get_identifier_value(token) = <<>>
    THEN [ok |-> FALSE, val |-> "expected identifier token", panicked |-> TRUE, env |-> env]
    ELSE IF contains_key(env.globals, get_identifier_value(token)[1])
    THEN [ok |-> TRUE, val |-> env.globals[get_identifier_value(token)[1]],
          panicked |-> FALSE, env |-> env]
    ELSE [ok |-> FALSE, val |-> not_defined(token.line, get_identifier_value(token)[1]),
          panicked |-> FALSE, env |-> env]

\* assign without the test of contains_key
assign_inserting(env, token, value) ==
    [ok |-> TRUE, val |-> value, panicked |-> FALSE,
     env |-> [env EXCEPT !.globals = insert(@, get_identifier_value(token)[1], value)]]

\* assign(token, value): the result and the environment afterwards
assign(env, token, value) ==
    IF get_identifier_value(token) = <<>>
    THEN [ok |-> FALSE, val |-> "expected identifier token", panicked |-> TRUE, env |-> env]
    ELSE IF contains_key(env.globals, get_identifier_value(token)[1])
    THEN [ok |-> TRUE, val |-> value, panicked |-> FALSE,
          env |-> [env EXCEPT !.globals =
                      insert(@, get_identifier_value(token)[1], value)]]
    ELSE [ok |-> FALSE, val |-> not_defined(token.line, get_identifier_value(token)[1]),
          panicked |-> FALSE, env |-> env]

(***************************************************************************)
(* Interpreter (src/src/interpreter.rs).  An evaluation returns Ok(value)  *)
(* or Err(message) together with the environment as it leaves it;          *)
(* panicked marks the abort of expect() or unreachable!().                 *)
(***************************************************************************)
Interpreter_new == [stdout |-> <<>>, environment |-> Environment_new]

EvalOk(v, env) == [ok |-> TRUE, val |-> v, panicked |-> FALSE, env |-> env]
EvalErr(msg, env) == [ok |-> FALSE, val |-> msg, panicked |-> FALSE, env |-> env]
EvalPanic(msg, env) == [ok |-> FALSE, val |-> msg, panicked |-> TRUE, env |-> env]

NumberOperators ==
    {"Minus", "Slash", "Star", "Plus", "Greater", "GreaterEqual", "Less", "LessEqual"}

\* the guard with both operands Numbers or neither
mismatched_addition_negated(left_val, right_val) ==
    is_number(left_val) = is_number(right_val)
\* the guard of the arm of Plus that follows the two additions:
\* !left_val.is_number() ^ !right_val.is_number()
mismatched_addition(left_val, right_val) ==
    (~is_number(left_val)) # (~is_number(right_val))

\* the match of handle_binary_expression on the operator and the two values
binary_match(tag, l, r, env) ==
    IF tag \in NumberOperators /\ is_number(l) /\ is_number(r)
    THEN (IF tag = "Minus" THEN EvalOk(LitNumber(f32_sub(l.n, r.n)), env)
          ELSE IF tag = "Slash"
               THEN (IF f32_is_zero(r.n) THEN EvalErr("Divide by zero error", env)
                     ELSE EvalOk(LitNumber(f32_div(l.n, r.n)), env))
          ELSE IF tag = "Star" THEN EvalOk(LitNumber(f32_mul(l.n, r.n)), env)
          ELSE IF tag = "Plus" THEN EvalOk(LitNumber(f32_add(l.n, r.n)), env)
          ELSE IF tag = "Greater" THEN EvalOk(from_bool(f32_lt(r.n, l.n)), env)
          ELSE IF tag = "GreaterEqual" THEN EvalOk(from_bool(~f32_lt(l.n, r.n)), env)
          ELSE IF tag = "Less" THEN EvalOk(from_bool(f32_lt(l.n, r.n)), env)
          ELSE EvalOk(from_bool(~f32_lt(r.n, l.n)), env))
    ELSE IF tag = "Plus" /\ l.type = "STRING" /\ r.type = "STRING"
    THEN EvalOk(LitString(l.s \o r.s), env)
    ELSE IF tag = "Plus" /\ mismatched_addition(l, r)
    THEN EvalErr("Can not add a 'String' and a 'Number' in addition operation", env)
    ELSE IF tag = "EqualEqual" THEN EvalOk(from_bool(l = r), env)
    ELSE IF tag = "BangEqual" THEN EvalOk(from_bool(l # r), env)
    ELSE IF ~is_number(l) \/ ~is_number(r)
    THEN EvalErr(<<"Expected operands to be numbers in ", TokenType_fmt(Plain(tag)),
                   " expression">>, env)
    ELSE EvalPanic("internal error: entered unreachable code", env)

\* the match of the Unary arm of evaluate on the value and the operator
unary_match(tag, v, env) ==
    IF tag = "Minus"
    THEN (IF is_number(v) THEN EvalOk(LitNumber(f32_neg(v.n)), env)
          ELSE EvalErr("expected a number in negation expression", env))
    ELSE IF tag = "Bang" THEN EvalOk(from_bool(~is_truthy(v)), env)
    ELSE EvalErr(<<"Did not expected ", tag, " in unary expression">>, env)

\* the choice by is_truthy
ternary_choice_truthy(v) == IF is_truthy(v) THEN "true_expr" ELSE "false_expr"
\* the match of the Ternary arm of evaluate on the value of the condition
ternary_choice(v) ==
    IF v.type = "True" THEN "true_expr"
    ELSE IF v.type = "False" THEN "false_expr"
    ELSE "neither"

\* The arm of evaluate for Expr::Assign, which parser.rs builds and this
\* evaluate does not match: the value, once evaluated, goes to
\* Environment::assign under the name.
evaluate_assign(name, value) ==
    try(value, LAMBDA v : assign(v.env, name, v.val))

RECURSIVE evaluate(_, _)
handle_binary_expression(env, left, operator, right) ==
    try(evaluate(env, left), LAMBDA left_evaluated :
        try(evaluate(left_evaluated.env, right), LAMBDA right_evaluated :
            binary_match(operator.tag, left_evaluated.val, right_evaluated.val,
                         right_evaluated.env)))

\* the Ternary arm with both branches evaluated before the choice
evaluate_ternary_eager(env, e) ==
    try(evaluate(env, e.condition), LAMBDA condition_evaluated :
        try(evaluate(condition_evaluated.env, e.true_expr), LAMBDA t :
            try(evaluate(t.env, e.false_expr), LAMBDA f :
                IF ternary_choice(condition_evaluated.val) = "true_expr"
                THEN EvalOk(t.val, f.env)
                ELSE IF ternary_choice(condition_evaluated.val) = "false_expr"
                THEN EvalOk(f.val, f.env)
                ELSE EvalErr("expected a boolean expression as condition in ternary statement",
                             f.env))))
\* the Ternary arm of evaluate
evaluate_ternary(env, e) ==
    try(evaluate(env, e.condition), LAMBDA condition_evaluated :
        IF ternary_choice(condition_evaluated.val) = "true_expr"
        THEN evaluate(condition_evaluated.env, e.true_expr)
        ELSE IF ternary_choice(condition_evaluated.val) = "false_expr"
        THEN evaluate(condition_evaluated.env, e.false_expr)
        ELSE EvalErr("expected a boolean expression as condition in ternary statement",
                     condition_evaluated.env))

evaluate(env, e) ==
    IF e.kind = "Literal" THEN EvalOk(e.value, env)
    ELSE IF e.kind = "Variable" THEN get(env, e.token)
    ELSE IF e.kind = "Grouping" THEN evaluate(env, e.expr)
    ELSE IF e.kind = "Unary"
    THEN try(evaluate(env, e.operand), LAMBDA evaluated :
             unary_match(e.operator.tag, evaluated.val, evaluated.env))
    ELSE IF e.kind = "Binary"
    THEN handle_binary_expression(env, e.left, e.operator, e.right)
    ELSE IF e.kind = "Ternary" THEN evaluate_ternary(env, e)
    ELSE evaluate_assign(e.name, evaluate(env, e.value))

\* write! in place of writeln!: the text without the newline
write_no_newline(stdout, val) == Append(stdout, LiteralValue_fmt(val))
\* writeln!(self.stdout, "{}", val)
writeln(stdout, val) == Append(stdout, LiteralValue_fmt(val) \o <<NL>>)

ExecOk(interpreter) == [ok |-> TRUE, val |-> <<>>, panicked |-> FALSE, interpreter |-> interpreter]

\* a failed evaluation leaves execute through ?
ExecErr(r, interpreter) ==
    [ok |-> FALSE, val |-> r.val, panicked |-> r.panicked,
     interpreter |-> [interpreter EXCEPT !.environment = r.env]]

\* execute with the binding made before the initializer is evaluated
execute_define_first(interpreter, s) ==
    IF s.kind = "VarDec"
    THEN bind(evaluate(define(interpreter.environment, s.name, <<>>),
                       IF s.initializer = <<>> THEN Literal(LitNil) ELSE s.initializer[1]),
              LAMBDA r :
              IF r.ok
              THEN ExecOk([interpreter EXCEPT !.environment = define(r.env, s.name, <<r.val>>)])
              ELSE ExecErr(r, interpreter))
    ELSE bind(evaluate(interpreter.environment, s.expr), LAMBDA r :
              IF ~r.ok THEN ExecErr(r, interpreter)
              ELSE IF s.kind = "Print"
              THEN ExecOk([interpreter EXCEPT !.environment = r.env,
                                              !.stdout = writeln(@, r.val)])
              ELSE ExecOk([interpreter EXCEPT !.environment = r.env]))

\* execute(s): Ok(()) or Err(message), and the interpreter afterwards
execute(interpreter, s) ==
    IF s.kind = "Expr"
    THEN bind(evaluate(interpreter.environment, s.expr), LAMBDA r :
              IF r.ok THEN ExecOk([interpreter EXCEPT !.environment = r.env])
              ELSE ExecErr(r, interpreter))
    ELSE IF s.kind = "Print"
    THEN bind(evaluate(interpreter.environment, s.expr), LAMBDA val :
              IF val.ok
              THEN ExecOk([interpreter EXCEPT !.environment = val.env,
                                              !.stdout = writeln(@, val.val)])
              ELSE ExecErr(val, interpreter))
    ELSE IF s.initializer = <<>>
    THEN ExecOk([interpreter EXCEPT !.environment = define(@, s.name, <<>>)])
    ELSE bind(evaluate(interpreter.environment, s.initializer[1]), LAMBDA value :
              IF value.ok
              THEN ExecOk([interpreter EXCEPT !.environment =
                              define(value.env, s.name, <<value.val>>)])
              ELSE ExecErr(value, interpreter))

\* the parser and the locals of parse() when parse() is entered
parse_entry(tokens, err) ==
    [tokens |-> tokens, current |-> 0, err |-> err, stmts |-> <<>>,
     has_parse_error |-> FALSE]

(***************************************************************************)
(* run (src/src/main.rs): scan, parse, and interpret when the parse        *)
(* returned statements.                                                    *)
(***************************************************************************)
RECURSIVE parse_loop(_)
\* the loop of parse(): it has ended, or a turn has left the cursor where it
\* was, and then every later turn does the same and the loop never ends
parse_loop(st) ==
    IF Parser_is_at_end(st) THEN [returned |-> TRUE, st |-> st]
    ELSE bind(parse_turn(st), LAMBDA n :
              IF n.current = st.current THEN [returned |-> FALSE, st |-> n]
              ELSE parse_loop(n))

\* parse() on the tokens, the diagnostic stream holding err
parse(tokens, err) ==
    bind(parse_loop(parse_entry(tokens, err)), LAMBDA l :
         [returned |-> l.returned, result |-> parse_return(l.st), err |-> l.st.err])

\* what run() does with the tokens scanned
run_tokens(s, interpreter) ==
    IF s.pc = "panic"
    THEN [pc |-> "aborted", stmts |-> <<>>, interpreter |-> interpreter, err |-> s.err]
    ELSE IF s.pc # "done"
    THEN [pc |-> "hung", stmts |-> <<>>, interpreter |-> interpreter, err |-> s.err]
    ELSE bind(parse(s.tokens, s.err), LAMBDA parsed :
              IF ~parsed.returned
              THEN [pc |-> "hung", stmts |-> <<>>, interpreter |-> interpreter,
                    err |-> parsed.err]
              ELSE IF parsed.result.ok
              THEN [pc |-> "interpret", stmts |-> parsed.result.val,
                    interpreter |-> interpreter, err |-> parsed.err]
              ELSE [pc |-> "prompt", stmts |-> <<>>, interpreter |-> interpreter,
                    err |-> eprintln(parsed.err, parsed.result.val)])

\* run on an interpreter made for the call, as run_file makes one
run_fresh(source, interpreter, err) ==
    run_tokens(scan_tokens([Scanner_new(source) EXCEPT !.err = err]), Interpreter_new)

\* run(source, interpreter) up to the call of interpret
run(source, interpreter, err) ==
    run_tokens(scan_tokens([Scanner_new(source) EXCEPT !.err = err]), interpreter)

(***************************************************************************)
(* The reserved words and their token types, as TokenType and its Display  *)
(* list them (src/src/token.rs).                                           *)
(***************************************************************************)
ReservedWords ==
    ( <<"a", "n", "d">> :> "And"
   @@ <<"c", "l", "a", "s", "s">> :> "Class"
   @@ <<"e", "l", "s", "e">> :> "Else"
   @@ <<"f", "a", "l", "s", "e">> :> "False"
   @@ <<"f", "u", "n">> :> "Fun"
   @@ <<"f", "o", "r">> :> "For"
   @@ <<"i", "f">> :> "If"
   @@ <<"n", "i", "l">> :> "Nil"
   @@ <<"o", "r">> :> "Or"
   @@ <<"p", "r", "i", "n", "t">> :> "Print"
   @@ <<"r", "e", "t", "u", "r", "n">> :> "Return"
   @@ <<"s", "u", "p", "e", "r">> :> "Super"
   @@ <<"t", "h", "i", "s">> :> "This"
   @@ <<"t", "r", "u", "e">> :> "True"
   @@ <<"v", "a", "r">> :> "Var"
   @@ <<"w", "h", "i", "l", "e">> :> "While" )

(***************************************************************************)
(* Source texts scanned: every text of at most MaxSrcLen characters over   *)
(* ScanAlphabet, and the sample texts.                                     *)
(***************************************************************************)
ScanAlphabet == {"a", "1", QUOTE, NL, "/", "*", "@", UE9}

SampleSources ==
    { <<"a", "n", "d">>,
      <<"c", "l", "a", "s", "s">>,
      <<"e", "l", "s", "e">>,
      <<"f", "a", "l", "s", "e">>,
      <<"f", "u", "n">>,
      <<"f", "o", "r">>,
      <<"i", "f">>,
      <<"n", "i", "l">>,
      <<"o", "r">>,
      <<"p", "r", "i", "n", "t">>,
      <<"r", "e", "t", "u", "r", "n">>,
      <<"s", "u", "p", "e", "r">>,
      <<"t", "h", "i", "s">>,
      <<"t", "r", "u", "e">>,
      <<"v", "a", "r">>,
      <<"w", "h", "i", "l", "e">>,
      <<"f", "o", "o">>,
      <<"a", "n">>,
      <<"a", "n", "d", "y">>,
      <<"_", "i", "f">>,
      <<"i", "f", "1">>,
      <<"Z">>,
      <<"1", "2">>,
      <<"1", ".", "5">>,
      <<"1", ".">>,
      <<"7", ".", "2", "5">>,
      <<"!", "=">>,
      <<"!", " ", "=">>,
      <<"<", "=">>,
      <<">">>,
      <<"=", "=">>,
      <<"=">>,
      <<"/">>,
      <<"/", "/", "a", NL, "b">>,
      <<"/", "*", " ", "a", " ", "*", "/", "b">>,
      <<"/", "*", "/", "*", "*", "/", "*", "/", "1">>,
      <<"(", ")", "{", "}", ",", ".", "-", "+", ";", "*", "?", ":">>,
      <<TAB, CR, " ">>,
      <<QUOTE, "a", "b", QUOTE>>,
      <<QUOTE, "a", NL, "b", QUOTE>>,
      <<QUOTE, "a", "b">>,
      <<UE9>>,
      <<"a", UE9>>,
      <<QUOTE, UE9, QUOTE>>,
      <<U20AC, "1">>,
      <<"1", " ", UE9>>,
      <<"@">>,
      <<"a", "@", "b">>,
      <<"v", "a", "r", " ", "a", " ", "=", " ", "1", ";">> }

SeqsUpTo(S, n) == UNION {[1..k -> S] : k \in 0..n}

MaxCommentDepth == 2

RECURSIVE Comments(_)
\* the block comments nested to at most d levels, each holding nothing, or a
\* character, a newline or a comment of the level below, followed or not by
\* a character, a newline or a comment without a comment inside
Comments(d) ==
    IF d = 0 THEN {}
    ELSE LET items == {<<"a">>, <<NL>>} \cup Comments(d - 1)
             last == {<<"a">>, <<NL>>} \cup (IF d = 1 THEN {} ELSE Comments(1))
         IN  {<<"/", "*">> \o body \o <<"*", "/">> :
                 body \in {<<>>} \cup items \cup {x \o y : x \in items, y \in last}}

\* texts with a block comment: the nested comments between two tokens, and
\* comments whose text is any three characters of a comment
CommentSources ==
    {<<"1", NL>> \o c \o <<"b">> : c \in Comments(MaxCommentDepth)}
    \cup {<<"/", "*">> \o mid \o <<"*", "/", "1">> :
              mid \in SeqsUpTo({"*", "/", NL, "a"}, 3)}
    \cup { <<"/", "*", UE9, "*", "/", "1">>,
           <<"/", "/", "/", "*", NL, "1", "/", "*", "/", "/", NL, "*", "/", "2">> }

ScanSources == SeqsUpTo(ScanAlphabet, MaxSrcLen) \cup SampleSources \cup CommentSources

(***************************************************************************)
(* State of the components that a specification leaves alone               *)
(***************************************************************************)
ScannerState(r) ==
    [chars |-> r.chars, tokens |-> r.tokens, start |-> r.start,
     current |-> r.current, line |-> r.line, pc |-> r.pc]

WithErr(s, e) ==
    [chars |-> s.chars, tokens |-> s.tokens, start |-> s.start,
     current |-> s.current, line |-> s.line, pc |-> s.pc, err |-> e]

IdleScanner == ScannerState([Scanner_new(<<>>) EXCEPT !.pc = "idle"])
IdleParser == [pc |-> "idle"]
IdleInterp == [pc |-> "idle"]
IdleSession == [pc |-> "idle"]
IdleEnvCall == [op |-> "none"]

(***************************************************************************)
(* Scanning one source text: Scanner::new, then scan_tokens step by step   *)
(***************************************************************************)
ScanInit ==
    /\ \E cs \in ScanSources : scanner = ScannerState(Scanner_new(cs))
    /\ stderr = <<>>
    /\ parser = IdleParser
    /\ interp = IdleInterp
    /\ session = IdleSession
    /\ envcall = IdleEnvCall

ScanFrame == UNCHANGED <<parser, interp, session, envcall>>

\* one turn of the loop of scan_tokens: scan_token
ScanToken ==
    /\ scanner.pc = "scan"
    /\ ~Scanner_is_at_end(scanner)
    /\ LET r == scan_step(WithErr(scanner, stderr))
       IN  scanner' = ScannerState(r) /\ stderr' = r.err
    /\ ScanFrame

\* the loop of scan_tokens has ended: the EOF token
ScanEOF ==
    /\ scanner.pc = "scan"
    /\ Scanner_is_at_end(scanner)
    /\ LET r == scan_step(WithErr(scanner, stderr))
       IN  scanner' = ScannerState(r) /\ stderr' = r.err
    /\ ScanFrame

\* one turn of the loop of handle_string, or its end
HandleString ==
    /\ scanner.pc = "string"
    /\ ~(Scanner_peek(scanner) = NL /\ scanner.line >= U32Max)
    /\ LET r == scan_step(WithErr(scanner, stderr))
       IN  scanner' = ScannerState(r) /\ stderr' = r.err
    /\ ScanFrame

\* line += 1 at u32::MAX: a panic in a build with overflow checks, a wrap to 0
\* in one without
LineOverflow ==
    /\ scanner.pc = "string"
    /\ Scanner_peek(scanner) = NL
    /\ scanner.line >= U32Max
    /\ \E checked \in BOOLEAN :
          scanner' = IF checked THEN [scanner EXCEPT !.pc = "panic"]
                     ELSE [scanner EXCEPT !.line = 0]
    /\ UNCHANGED stderr
    /\ ScanFrame

ScanNext == ScanToken \/ ScanEOF \/ HandleString \/ LineOverflow

SpecScan == ScanInit /\ [][ScanNext]_vars

(***************************************************************************)
(* Parsing one token sequence: Parser::new, then parse() turn by turn.     *)
(* The sequences are every sequence of at most MaxTokens tokens over       *)
(* StmtAlphabet, every expression statement of at most MaxExprTokens       *)
(* tokens over ExprAlphabet, and the tokens of the sample programs, each   *)
(* ending in EOF.                                                          *)
(***************************************************************************)
MaxTokens == 4
MaxExprTokens == 4
MaxDiag == 12       \* diagnostics written before a parse is cut short

Tok(tag) == Token(tag, <<>>, 0)
IdentTok(c) == Token("Identifer", <<c>>, 0)
NumTok(n) == Token("Number", <<n, 1>>, 0)

StmtAlphabet ==
    {IdentTok("a"), NumTok(1), Tok("Plus"), Tok("Star"), Tok("Semicolon"),
     Tok("Equal"), Tok("Print"), Tok("If")}

ExprAlphabet ==
    {IdentTok("a"), NumTok(1), Tok("Plus"), Tok("Minus"), Tok("Star"),
     Tok("Less"), Tok("EqualEqual"), Tok("Bang")}

SamplePrograms ==
    { <<"a", " ", "+", " ", "b", " ", "*", " ", "c", ";">>,
      <<"a", " ", "*", " ", "b", " ", "+", " ", "c", ";">>,
      <<"a", " ", "-", " ", "b", " ", "-", " ", "c", ";">>,
      <<"-", "x", ";">>,
      <<"!", "x", ";">>,
      <<"!", "-", "x", ";">>,
      <<"1", " ", "<", " ", "2", " ", "=", "=", " ", "3", " ", ">", " ", "4", ";">>,
      <<"1", " ", "+", " ", "2", " ", "<", " ", "3", " ", "*", " ", "4", ";">>,
      <<"(", "1", " ", "+", " ", "2", ")", " ", "*", " ", "3", ";">>,
      <<"p", "r", "i", "n", "t", " ", "1", " ", "+", " ", "2", ";">>,
      <<"v", "a", "r", " ", "a", " ", "=", " ", "1", ";">>,
      <<"v", "a", "r", " ", "a", ";">>,
      <<"a", " ", "=", " ", "2", ";">>,
      <<"n", " ", "=", " ", "1", ";">>,
      <<"n", ";">>,
      <<"p", "r", "i", "n", "t", " ", "a", ";">>,
      <<"1", " ", "+", ";">>,
      <<"(", "1", ";">>,
      <<"1", " ", "=", " ", "2", ";">>,
      <<"t", "r", "u", "e", " ", "?", " ", "1", " ", ":", " ", "2", ";">>,
      <<"=", "=", " ", "1", " ", "2", ";">>,
      <<"p", "r", "i", "n", "t", " ", "1", ";", " ", "+", " ", ";", " ", "p", "r", "i", "n", "t", " ", "2", ";">>,
      <<"a", " ", "=", " ", "b", " ", "=", " ", "1", ";">>,
      <<"p", "r", "i", "n", "t", " ", "1", "/", "0", ";">>,
      <<"a", " ", "!", "=", " ", "b", " ", "=", "=", " ", "c", ";">>,
      <<"1", " ", "/", " ", "2", " ", "*", " ", "3", ";">>,
      <<"a", " ", "=", " ", "1", " ", "?", " ", "2", " ", ":", " ", "3", ";">>,
      <<"-", "1", " ", "-", " ", "-", "2", ";">>,
      <<"p", "r", "i", "n", "t", " ", QUOTE, "s", QUOTE, ";">>,
      <<"v", "a", "r", " ", "1", ";">>,
      <<"i", "f", ";">>,
      <<"1", " ", "?", " ", "2", ";">>,
      <<"*", " ", "1", " ", "2", ";">>,
      <<">", " ", "1", " ", "2", ";">>,
      <<"1", " ", "+", " ", "+", " ", "2", " ", "3", ";">>,
      <<"1", " ", ">", "=", " ", "2", ";">>,
      <<"1", " ", "<", "=", " ", "2", ";">> }

MaxLeading == 3     \* binary operators in a row where an expression begins

\* the operators the four tiers match where their left operand should be
LeadingOperators ==
    {"BangEqual", "EqualEqual", "Greater", "GreaterEqual", "Less", "LessEqual",
     "Plus", "Slash", "Star"}

\* one of them from each tier, for the operators that follow the first
TierOperators == {"EqualEqual", "Less", "Plus", "Star"}

\* the tokens as the scanner numbers them when each is on a line of its own
on_lines(ts) == [i \in 1..Len(ts) |-> [ts[i] EXCEPT !.line = i]]

\* [print] [(] op op ... [1 [1]] ; EOF
LeadingOperatorInputs ==
    {on_lines(before \o <<Tok(first)>> \o [i \in 1..Len(more) |-> Tok(more[i])]
              \o after \o <<Tok("Semicolon"), Tok("EOF")>>) :
        before \in {<<>>, <<Tok("Print")>>, <<Tok("LeftParen")>>},
        first \in LeadingOperators,
        more \in SeqsUpTo(TierOperators, MaxLeading - 1),
        after \in {<<>>, <<NumTok(1)>>, <<NumTok(1), NumTok(1)>>}}

ParseInputs ==
    {ts \o <<Tok("EOF")>> : ts \in SeqsUpTo(StmtAlphabet, MaxTokens)}
    \cup LeadingOperatorInputs
    \cup {ts \o <<Tok("Semicolon"), Tok("EOF")>> :
             ts \in SeqsUpTo(ExprAlphabet, MaxExprTokens)}
    \cup {scan_tokens(Scanner_new(src)).tokens : src \in SamplePrograms}

ParserState(st, pc, result) ==
    [tokens |-> st.tokens, current |-> st.current, stmts |-> st.stmts,
     has_parse_error |-> st.has_parse_error, pc |-> pc, result |-> result]

ParseInit ==
    /\ \E ts \in ParseInputs :
          parser = ParserState(parse_entry(ts, <<>>), "loop", <<>>)
    /\ stderr = <<>>
    /\ scanner = IdleScanner
    /\ interp = IdleInterp
    /\ session = IdleSession
    /\ envcall = IdleEnvCall

ParseFrame == UNCHANGED <<scanner, interp, session, envcall>>

ParserLocals ==
    [tokens |-> parser.tokens, current |-> parser.current, err |-> stderr,
     stmts |-> parser.stmts, has_parse_error |-> parser.has_parse_error]

\* one turn of the loop of parse(): declaration(), then push or eprintln
ParseDeclaration ==
    /\ parser.pc = "loop"
    /\ ~Parser_is_at_end(ParserLocals)
    /\ Len(stderr) < MaxDiag
    /\ LET st == parse_turn(ParserLocals)
       IN  parser' = ParserState(st, "loop", <<>>) /\ stderr' = st.err
    /\ ParseFrame

\* the loop of parse() has ended: its result
ParseReturn ==
    /\ parser.pc = "loop"
    /\ Parser_is_at_end(ParserLocals)
    /\ parser' = ParserState(ParserLocals, "done", <<parse_return(ParserLocals)>>)
    /\ UNCHANGED stderr
    /\ ParseFrame

ParseNext == ParseDeclaration \/ ParseReturn

SpecParse == ParseInit /\ [][ParseNext]_vars

(***************************************************************************)
(* The operations of an Environment, called in any order                   *)
(***************************************************************************)
EnvNames == {<<"a">>, <<"b">>}

EnvValues == {LitNil, LitTrue, LitNumber(<<1, 1>>), LitString(<<"s">>)}

EnvCall(op, key, value, result, env) ==
    [op |-> op, key |-> key, value |-> value, result |-> result, env |-> env]

EnvInit ==
    /\ envcall = EnvCall("new", <<>>, <<>>, <<>>, Environment_new)
    /\ stderr = <<>>
    /\ scanner = IdleScanner
    /\ parser = IdleParser
    /\ interp = IdleInterp
    /\ session = IdleSession

EnvFrame == UNCHANGED <<scanner, parser, interp, session, stderr>>

EnvDefine ==
    /\ envcall.op # "none"
    /\ \E key \in EnvNames : \E value \in {<<>>} \cup {<<v>> : v \in EnvValues} :
          envcall' = EnvCall("define", key, value, <<>>, define(envcall.env, key, value))
    /\ EnvFrame

EnvGet ==
    /\ envcall.op # "none"
    /\ \E key \in EnvNames :
          LET r == get(envcall.env, Token("Identifer", key, 0))
          IN  envcall' = EnvCall("get", key, <<>>, <<[ok |-> r.ok, val |-> r.val]>>, r.env)
    /\ EnvFrame

EnvAssign ==
    /\ envcall.op # "none"
    /\ \E key \in EnvNames : \E v \in EnvValues :
          LET r == assign(envcall.env, Token("Identifer", key, 0), v)
          IN  envcall' = EnvCall("assign", key, <<v>>, <<[ok |-> r.ok, val |-> r.val]>>, r.env)
    /\ EnvFrame

EnvNext == EnvDefine \/ EnvGet \/ EnvAssign

SpecEnv == EnvInit /\ [][EnvNext]_vars

(***************************************************************************)
(* An interactive session: run_prompt reads a line and runs it on the one  *)
(* interpreter, until readline fails.                                      *)
(***************************************************************************)
MaxInputs == 2

SessionLines ==
    { <<"v", "a", "r", " ", "a", " ", "=", " ", "1", ";">>,
      <<"v", "a", "r", " ", "a", ";">>,
      <<"a", " ", "=", " ", "2", ";">>,
      <<"n", " ", "=", " ", "1", ";">>,
      <<"n", " ", "=", " ", "1", "/", "0", ";">>,
      <<"n", " ", "=", " ", "m", ";">>,
      <<"n", ";">>,
      <<"p", "r", "i", "n", "t", " ", "a", ";">>,
      <<"p", "r", "i", "n", "t", " ", "a", " ", "+", " ", "1", ";", " ", "p", "r", "i", "n", "t", " ", "n", ";", " ", "p", "r", "i", "n", "t", " ", "2", ";">>,
      <<"v", "a", "r", " ", "b", " ", "=", " ", "a", ";", " ", "v", "a", "r", " ", "c", " ", "=", " ", "n", ";", " ", "p", "r", "i", "n", "t", " ", "b", ";">>,
      <<"p", "r", "i", "n", "t", " ", "1", ";", " ", "+", " ", ";", " ", "p", "r", "i", "n", "t", " ", "2", ";">>,
      <<"1", " ", "+", ";">>,
      <<"i", "f", ";">>,
      <<UE9>>,
      <<"p", "r", "i", "n", "t", " ", QUOTE, "s", QUOTE, " ", "+", " ", QUOTE, "t", QUOTE, ";">>,
      <<"(", "a", " ", "=", " ", "3", ")", " ", "+", " ", "n", "i", "l", ";">>,
      <<NL, "n", " ", "=", " ", "1", ";">> }

InterpState(interpreter, stmts, ip, result) ==
    [stdout |-> interpreter.stdout, environment |-> interpreter.environment,
     stmts |-> stmts, ip |-> ip, result |-> result]

TheInterpreter == [stdout |-> interp.stdout, environment |-> interp.environment]

SessionState(pc, inputs) == [pc |-> pc, inputs |-> inputs]

SessionInit ==
    /\ session = SessionState("prompt", 0)
    /\ interp = InterpState(Interpreter_new, <<>>, 0, <<>>)
    /\ stderr = <<>>
    /\ scanner = IdleScanner
    /\ parser = IdleParser
    /\ envcall = IdleEnvCall

SessionFrame == UNCHANGED <<scanner, parser, envcall>>

\* readline returns a line: run(line, &mut interpreter) up to interpret
ReadLine ==
    /\ session.pc = "prompt"
    /\ session.inputs < MaxInputs
    /\ \E line \in SessionLines :
          LET r == run(line, TheInterpreter, stderr)
          IN  /\ session' = SessionState(r.pc, session.inputs + 1)
              /\ interp' = InterpState(r.interpreter, r.stmts, 0, <<>>)
              /\ stderr' = r.err
    /\ SessionFrame

\* one turn of the loop of interpret: execute(s)?, and on an error the
\* eprintln of run
Execute ==
    /\ session.pc = "interpret"
    /\ interp.ip < Len(interp.stmts)
    /\ LET r == execute(TheInterpreter, interp.stmts[interp.ip + 1])
       IN  IF r.ok
           THEN /\ interp' = InterpState(r.interpreter, interp.stmts, interp.ip + 1, <<>>)
                /\ UNCHANGED <<session, stderr>>
           ELSE /\ interp' = InterpState(r.interpreter, interp.stmts, interp.ip,
                                         <<[ok |-> FALSE, val |-> r.val]>>)
                /\ session' = [session EXCEPT !.pc = IF r.panicked THEN "aborted"
                                                     ELSE "prompt"]
                /\ stderr' = IF r.panicked THEN stderr ELSE eprintln(stderr, r.val)
    /\ SessionFrame

\* the loop of interpret has ended: Ok(())
InterpretReturn ==
    /\ session.pc = "interpret"
    /\ interp.ip = Len(interp.stmts)
    /\ interp' = [interp EXCEPT !.result = <<[ok |-> TRUE, val |-> <<>>]>>]
    /\ session' = [session EXCEPT !.pc = "prompt"]
    /\ UNCHANGED stderr
    /\ SessionFrame

\* readline fails (Ctrl-C, Ctrl-D, an error): break
EndSession ==
    /\ session.pc = "prompt"
    /\ session' = [session EXCEPT !.pc = "exit"]
    /\ UNCHANGED <<interp, stderr>>
    /\ SessionFrame

SessionNext == ReadLine \/ Execute \/ InterpretReturn \/ EndSession

SpecSession == SessionInit /\ [][SessionNext]_vars

(***************************************************************************)
(* Evaluating one expression tree in one environment: Interpreter::evaluate *)
(***************************************************************************)
EvalValues ==
    {LitNil, LitTrue, LitFalse, LitNumber(<<0, 1>>), LitNumber(<<3, 2>>),
     LitString(<<>>), LitString(<<"5">>)}

BinaryOperators ==
    {"Minus", "Slash", "Star", "Plus", "Greater", "GreaterEqual", "Less", "LessEqual",
     "EqualEqual", "BangEqual"}

Var(c) == Variable(IdentTok(c))

DivideByZero == Binary(Literal(LitNumber(<<1, 1>>)), Tok("Slash"), Literal(LitNumber(<<0, 1>>)))

\* conditions: every value, and expressions yielding a boolean, another value
\* or an error
Conditions ==
    {Literal(v) : v \in EvalValues}
    \cup { Binary(Literal(LitNumber(<<1, 1>>)), Tok("Less"), Literal(LitNumber(<<2, 1>>))),
           Unary(Tok("Bang"), Literal(LitTrue)),
           Grouping(Literal(LitTrue)),
           Var("t"), Var("a"), Var("u"),
           Assign(IdentTok("a"), Literal(LitFalse)),
           DivideByZero }

\* branches: values, and expressions that fail or assign when evaluated
Branches ==
    { Literal(LitString(<<"x">>)), Literal(LitString(<<"y">>)),
      DivideByZero, Var("u"), Var("a"),
      Assign(IdentTok("a"), Literal(LitNumber(<<2, 1>>))),
      Ternary(Literal(LitFalse), DivideByZero, Literal(LitNil)) }

EvalExprs ==
    {Binary(Literal(l), Tok(op), Literal(r)) :
        l \in EvalValues, op \in BinaryOperators, r \in EvalValues}
    \cup {Ternary(c, t, f) : c \in Conditions, t \in Branches, f \in Branches}
    \cup {Unary(Tok(op), Literal(v)) : op \in {"Minus", "Bang"}, v \in EvalValues}

\* the environments evaluated in: nothing bound, or t and a bound ("u" never is)
EvalEnvironments ==
    { Environment_new,
      define(define(Environment_new, <<"t">>, <<LitTrue>>), <<"a">>, <<LitNumber(<<1, 1>>)>>) }

EvalState(pc, e, environment, result) ==
    [pc |-> pc, e |-> e, environment |-> environment, result |-> result]

EvalInit ==
    /\ \E e \in EvalExprs : \E env \in EvalEnvironments :
          interp = EvalState("call", e, env, <<>>)
    /\ stderr = <<>>
    /\ scanner = IdleScanner
    /\ parser = IdleParser
    /\ session = IdleSession
    /\ envcall = IdleEnvCall

\* evaluate(e): the result, and the environment it leaves
Evaluate ==
    /\ interp.pc = "call"
    /\ LET r == evaluate(interp.environment, interp.e)
       IN  interp' = EvalState(IF r.panicked THEN "aborted" ELSE "returned", interp.e,
                               interp.environment,
                               <<[ok |-> r.ok, val |-> r.val, env |-> r.env]>>)
    /\ UNCHANGED <<stderr, scanner, parser, session, envcall>>

EvalNext == Evaluate

SpecEval == EvalInit /\ [][EvalNext]_vars

(***************************************************************************)
(* A program run from its text on a fresh interpreter writing to a buffer  *)
(* (src/src/test.rs, scan_parse_and_interpret), and the texts the property *)
(* tests of test.rs format from numbers, booleans and strings.             *)
(***************************************************************************)
MaxOperand == 2

\* the f32 operands drawn: the halves from -MaxOperand to MaxOperand
TestNumbers == {rat(n, d) : n \in (-MaxOperand)..MaxOperand, d \in {1, 2}}

\* format!("print {} * {} / {};", op1, op2, op3)
MulDivSource(op1, op2, op3) ==
    <<"p", "r", "i", "n", "t", " ">> \o f32_to_string(op1) \o <<" ", "*", " ">>
    \o f32_to_string(op2) \o <<" ", "/", " ">> \o f32_to_string(op3) \o <<";">>

\* format!("print {} + {} * {};", op1, op2, op3)
AddMulSource(op1, op2, op3) ==
    <<"p", "r", "i", "n", "t", " ">> \o f32_to_string(op1) \o <<" ", "+", " ">>
    \o f32_to_string(op2) \o <<" ", "*", " ">> \o f32_to_string(op3) \o <<";">>

\* format!("var a = {}; var b = {}; print a + b;", op1, op2)
VarSumSource(op1, op2) ==
    <<"v", "a", "r", " ", "a", " ", "=", " ">> \o f32_to_string(op1) \o <<";", " ">>
    \o <<"v", "a", "r", " ", "b", " ", "=", " ">> \o f32_to_string(op2) \o <<";", " ">>
    \o <<"p", "r", "i", "n", "t", " ", "a", " ", "+", " ", "b", ";">>

\* divisions whose right operand is a zero that is not the literal 0
ZeroDivisorSources ==
    { <<"p", "r", "i", "n", "t", " ", "1", " ", "*", " ", "2", " ", "/", " ", "-", "0", ";">>,
      <<"p", "r", "i", "n", "t", " ", "1", " ", "/", " ", "0", ".", "0", ";">>,
      <<"p", "r", "i", "n", "t", " ", "1", " ", "/", " ", "(", "2", " ", "-", " ", "2", ")", ";">>,
      <<"v", "a", "r", " ", "z", " ", "=", " ", "0", ";", " ",
        "p", "r", "i", "n", "t", " ", "3", " ", "/", " ", "z", ";">> }

TestSources ==
    {MulDivSource(a, b, c) : a \in TestNumbers, b \in TestNumbers, c \in TestNumbers}
    \cup {AddMulSource(a, b, c) : a \in {rat(1, 2)}, b \in TestNumbers, c \in TestNumbers}
    \cup {VarSumSource(a, b) : a \in TestNumbers, b \in TestNumbers}
    \cup ZeroDivisorSources

\* scan_parse_and_interpret up to the call of interpret
scan_parse(source) ==
    bind(scan_tokens(Scanner_new(source)), LAMBDA s :
         IF s.pc = "panic"
         THEN [pc |-> "aborted", stmts |-> <<>>, result |-> <<>>, err |-> s.err]
         ELSE IF s.pc # "done"
         THEN [pc |-> "hung", stmts |-> <<>>, result |-> <<>>, err |-> s.err]
         ELSE bind(parse(s.tokens, s.err), LAMBDA parsed :
                   IF ~parsed.returned
                   THEN [pc |-> "hung", stmts |-> <<>>, result |-> <<>>, err |-> parsed.err]
                   ELSE IF parsed.result.ok
                   THEN [pc |-> "interpret", stmts |-> parsed.result.val, result |-> <<>>,
                         err |-> parsed.err]
                   ELSE [pc |-> "returned", stmts |-> <<>>,
                         result |-> <<[ok |-> FALSE, val |-> parsed.result.val]>>,
                         err |-> parsed.err]))

TestState(pc, source, result) == [pc |-> pc, source |-> source, result |-> result]

TestInit ==
    /\ \E source \in TestSources : session = TestState("call", source, <<>>)
    /\ interp = InterpState(Interpreter_new, <<>>, 0, <<>>)
    /\ stderr = <<>>
    /\ scanner = IdleScanner
    /\ parser = IdleParser
    /\ envcall = IdleEnvCall

\* Interpreter::new(buffer), scan_tokens, parse
TestScanParse ==
    /\ session.pc = "call"
    /\ LET r == scan_parse(session.source)
       IN  /\ session' = TestState(r.pc, session.source, r.result)
           /\ interp' = InterpState(Interpreter_new, r.stmts, 0, <<>>)
           /\ stderr' = r.err
    /\ SessionFrame

\* one turn of the loop of interpret: execute(s)?
TestExecute ==
    /\ session.pc = "interpret"
    /\ interp.ip < Len(interp.stmts)
    /\ LET r == execute(TheInterpreter, interp.stmts[interp.ip + 1])
       IN  IF r.ok
           THEN /\ interp' = InterpState(r.interpreter, interp.stmts, interp.ip + 1, <<>>)
                /\ UNCHANGED session
           ELSE /\ interp' = InterpState(r.interpreter, interp.stmts, interp.ip, <<>>)
                /\ session' = [session EXCEPT
                                 !.pc = IF r.panicked THEN "aborted" ELSE "returned",
                                 !.result = <<[ok |-> FALSE, val |-> r.val]>>]
    /\ UNCHANGED stderr
    /\ SessionFrame

\* the loop of interpret has ended: Ok(())
TestReturn ==
    /\ session.pc = "interpret"
    /\ interp.ip = Len(interp.stmts)
    /\ session' = [session EXCEPT !.pc = "returned",
                                  !.result = <<[ok |-> TRUE, val |-> <<>>]>>]
    /\ UNCHANGED <<interp, stderr>>
    /\ SessionFrame

TestNext == TestScanParse \/ TestExecute \/ TestReturn

SpecTest == TestInit /\ [][TestNext]_vars

(***************************************************************************)
(* An expression tree printed by print_ast, and the text scanned and       *)
(* parsed as an expression                                                 *)
(***************************************************************************)
PrintLiterals ==
    {LitNumber(<<1, 1>>), LitNumber(rat(4567, 100)), LitTrue, LitNil, LitString(<<"s">>)}

\* the tree of test_print_ast, its tokens on line 1
TestPrintTree ==
    Binary(Unary(Token("Minus", <<>>, 1), Literal(LitNumber(<<123, 1>>))),
           Token("Star", <<>>, 1),
           Grouping(Literal(LitNumber(rat(4567, 100)))))

\* the literals, and one Unary, Grouping or Binary node over literals
PrintTrees ==
    {Literal(v) : v \in PrintLiterals}
    \cup {Unary(Tok(op), Literal(v)) : op \in {"Minus", "Bang"}, v \in PrintLiterals}
    \cup {Grouping(Literal(v)) : v \in PrintLiterals}
    \cup {Binary(Literal(l), Tok(op), Literal(r)) :
             l \in PrintLiterals, op \in {"Plus", "Minus", "Star", "Less", "EqualEqual"},
             r \in PrintLiterals}
    \cup {TestPrintTree}

\* Scanner::new(text).scan_tokens(), Parser::new(tokens).expression()
reparse(text, err) ==
    bind(scan_tokens([Scanner_new(text) EXCEPT !.err = err]), LAMBDA s :
         IF s.pc # "done"
         THEN [ok |-> FALSE, val |-> "scan", at_end |-> FALSE, err |-> s.err]
         ELSE bind(expression([Parser_new(s.tokens) EXCEPT !.err = s.err]), LAMBDA r :
                   [ok |-> r.ok, val |-> r.val, at_end |-> Parser_is_at_end(r.p),
                    err |-> r.p.err]))

PrintState(pc, e, text, result) == [pc |-> pc, e |-> e, text |-> text, result |-> result]

PrintInit ==
    /\ \E e \in PrintTrees : parser = PrintState("call", e, <<>>, <<>>)
    /\ stderr = <<>>
    /\ scanner = IdleScanner
    /\ interp = IdleInterp
    /\ session = IdleSession
    /\ envcall = IdleEnvCall

\* print_ast(&e)
PrintAst ==
    /\ parser.pc = "call"
    /\ parser' = PrintState("printed", parser.e, print_ast(parser.e), <<>>)
    /\ UNCHANGED stderr
    /\ ParseFrame

\* the text scanned and parsed as an expression
Reparse ==
    /\ parser.pc = "printed"
    /\ LET r == reparse(parser.text, stderr)
       IN  /\ parser' = PrintState("returned", parser.e, parser.text,
                                   <<[ok |-> r.ok, val |-> r.val, at_end |-> r.at_end]>>)
           /\ stderr' = r.err
    /\ ParseFrame

PrintNext == PrintAst \/ Reparse

SpecPrint == PrintInit /\ [][PrintNext]_vars

(***************************************************************************)
(* Claims about the scanner                                                *)
(***************************************************************************)
\* the number of newline characters among the first n characters
newlines(cs, n) == Cardinality({i \in 1..n : cs[i] = NL})

EOFAt(l) == Token("EOF", <<>>, l)

\* C1: for every source text scan_tokens terminates without aborting, and the
\* tokens it returns hold exactly one EOF token, the last one, whose line is
\* the line counter at the end of the scan, the number of newlines consumed.
C1_ScanReturnsOneEOF ==
    /\ scanner.pc # "panic"
    /\ ~string_spins(scanner)
    /\ scanner.pc = "done" =>
          /\ scanner.tokens # <<>>
          /\ scanner.tokens[Len(scanner.tokens)] = EOFAt(scanner.line)
          /\ \A i \in 1..(Len(scanner.tokens) - 1) : scanner.tokens[i].tag # "EOF"
          /\ scanner.line = newlines(scanner.chars, Len(scanner.chars))

\* the index of the first closing quote of a text that opens with a quote, 0 if
\* there is none
closing_quote(cs) ==
    IF \E i \in 2..Len(cs) : cs[i] = QUOTE
    THEN CHOOSE i \in 2..Len(cs) : cs[i] = QUOTE /\ \A j \in 2..(i - 1) : cs[j] # QUOTE
    ELSE 0

\* C2: a terminated string literal, also one holding k >= 1 newlines, gives one
\* String token whose text is the characters between the quotes; the line
\* counter grows by exactly k while it is scanned (inside handle_string the
\* counter is the number of newlines consumed so far), and the scan goes on
\* after the closing quote.
C2_StringLiteralWithNewlines ==
    /\ scanner.pc = "string" =>
          scanner.line = newlines(scanner.chars, scanner.current)
    /\ (/\ scanner.pc = "done"
        /\ scanner.chars # <<>>
        /\ scanner.chars[1] = QUOTE
        /\ closing_quote(scanner.chars) > 0) =>
          LET q == closing_quote(scanner.chars)
          IN  /\ scanner.tokens[1] =
                    Token("STRING", SubSeq(scanner.chars, 2, q - 1),
                          newlines(scanner.chars, q))
              /\ scanner.current = Len(scanner.chars)

\* the characters that start no lexeme: the last arm of scan_token
starts_no_lexeme(c) ==
    /\ c \notin DOMAIN SingleChar
    /\ c \notin {"!", "=", "<", ">", "/", NL, TAB, CR, " ", QUOTE}
    /\ ~is_digit(c)
    /\ ~is_alpha(c)

RECURSIVE scan_starts(_)
\* the indices at which scan_tokens calls scan_token
scan_starts(s) ==
    IF s.pc \in {"done", "panic"} \/ string_spins(s) THEN {}
    ELSE (IF s.pc = "scan" /\ ~Scanner_is_at_end(s) THEN {s.current} ELSE {})
         \cup scan_starts(scan_step(s))

\* C3: a character c that starts no lexeme, a non-ASCII character included,
\* gives no token and does not stop the scan: where scan_token meets c, the
\* tokens of the text are those of the text with c replaced by a space.
C3_UnexpectedCharacterIsSkipped ==
    \A i \in 1..Len(scanner.chars) :
        (/\ starts_no_lexeme(scanner.chars[i])
         /\ (i - 1) \in scan_starts(Scanner_new(scanner.chars))) =>
            LET a == scan_tokens(Scanner_new(scanner.chars))
                b == scan_tokens(Scanner_new([scanner.chars EXCEPT ![i] = " "]))
            IN  b.pc = "done" => (a.pc = "done" /\ a.tokens = b.tokens)

\* the text is one identifier lexeme: [A-Za-z_][A-Za-z0-9_]*
is_identifier_lexeme(cs) ==
    /\ cs # <<>>
    /\ is_alpha(cs[1])
    /\ \A i \in 1..Len(cs) : is_alphanumeric(cs[i])

\* C4: each of the sixteen reserved words, scanned as a whole identifier
\* lexeme, gives its keyword token and never Identifier; every other
\* identifier lexeme gives Identifier with its text.
C4_ReservedWordsScanAsKeywords ==
    (scanner.pc = "done" /\ is_identifier_lexeme(scanner.chars)) =>
        scanner.tokens =
            << Token(IF scanner.chars \in DOMAIN ReservedWords
                     THEN ReservedWords[scanner.chars] ELSE "Identifer",
                     IF scanner.chars \in DOMAIN ReservedWords
                     THEN <<>> ELSE scanner.chars,
                     0),
               EOFAt(0) >>

\* the two characters at i and i + 1 of the text are c and d
two_at(cs, i, c, d) == i + 1 <= Len(cs) /\ cs[i] = c /\ cs[i + 1] = d

\* the index of the first newline at or after i, Len(cs) + 1 when none
line_end(cs, i) ==
    IF \E j \in i..Len(cs) : cs[j] = NL
    THEN CHOOSE j \in i..Len(cs) : cs[j] = NL /\ \A k \in i..(j - 1) : cs[k] # NL
    ELSE Len(cs) + 1

RECURSIVE balanced(_, _, _)
\* reading the text from i at the comment depth given, every block comment
\* opened is closed: "/*" opens one outside a line comment, "*/" closes the
\* innermost
balanced(cs, i, depth) ==
    IF i > Len(cs) THEN depth = 0
    ELSE IF depth = 0 /\ two_at(cs, i, "/", "/") THEN balanced(cs, line_end(cs, i), 0)
    ELSE IF two_at(cs, i, "/", "*") THEN balanced(cs, i + 2, depth + 1)
    ELSE IF depth > 0 /\ two_at(cs, i, "*", "/") THEN balanced(cs, i + 2, depth - 1)
    ELSE balanced(cs, i + 1, depth)

RECURSIVE uncommented(_, _, _)
\* the text from i with every outermost block comment replaced by a space and
\* the newlines it holds
uncommented(cs, i, depth) ==
    IF i > Len(cs) THEN <<>>
    ELSE IF depth = 0 /\ two_at(cs, i, "/", "/")
    THEN SubSeq(cs, i, line_end(cs, i) - 1) \o uncommented(cs, line_end(cs, i), 0)
    ELSE IF two_at(cs, i, "/", "*")
    THEN (IF depth = 0 THEN <<" ">> ELSE <<>>) \o uncommented(cs, i + 2, depth + 1)
    ELSE IF depth > 0 /\ two_at(cs, i, "*", "/") THEN uncommented(cs, i + 2, depth - 1)
    ELSE IF depth = 0 \/ cs[i] = NL THEN <<cs[i]>> \o uncommented(cs, i + 1, depth)
    ELSE uncommented(cs, i + 1, depth)

is_prefix(s, t) == Len(s) <= Len(t) /\ s = SubSeq(t, 1, Len(s))

has_block_comment(cs) == \E i \in 1..Len(cs) : two_at(cs, i, "/", "*")

declaration_failures ==
    {i \in 1..Len(stderr) :
        stderr[i].line = -1 /\ stderr[i].message # "invalid assignment target"}

semicolons(tokens) == {i \in 1..Len(tokens) : tokens[i].tag = "Semicolon"}

\* the cursor after the k-th semicolon of the tokens, 0 for k = 0
after_semicolon(tokens, k) ==
    IF k = 0 THEN 0
    ELSE CHOOSE i \in semicolons(tokens) :
             Cardinality({j \in semicolons(tokens) : j <= i}) = k

\* C7: when parse() returns, it returns the statement sequence exactly when
\* no declaration failed, and the sequence then holds one statement per
\* declaration in source order (the k-th statement is the declaration that
\* starts after the (k-1)-th semicolon); when a declaration failed it returns
\* the one aggregate failure, whatever statements parsed.
C7_ParseAllOrNothing ==
    parser.pc = "done" =>
        LET result == parser.result[1]
            n == Cardinality(semicolons(parser.tokens))
        IN  IF declaration_failures = {}
            THEN /\ result.ok
                 /\ Len(result.val) = n
                 /\ \A k \in 1..n :
                       result.val[k] =
                           declaration([tokens |-> parser.tokens,
                                        current |-> after_semicolon(parser.tokens, k - 1),
                                        err |-> <<>>]).val
            ELSE result = [ok |-> FALSE, val |-> AggregateFailure]

\* parse() has returned the aggregate failure although statements parsed
C7_Witness ==
    /\ parser.pc = "done"
    /\ ~parser.result[1].ok
    /\ Len(parser.stmts) >= 2
    /\ Cardinality(declaration_failures) = 1

\* the tier of an expression: the grammar rule that builds it
tier(e) ==
    IF e.kind = "Binary"
    THEN (IF e.operator.tag \in EqualityOps THEN 1
          ELSE IF e.operator.tag \in ComparisonOps THEN 2
          ELSE IF e.operator.tag \in AdditionOps THEN 3
          ELSE 4)
    ELSE IF e.kind = "Unary" THEN 5
    ELSE IF e.kind \in {"Literal", "Variable", "Grouping"} THEN 6
    ELSE 0

RECURSIVE well_grouped(_)
\* tighter tiers lie deeper, and a tier groups to the left: the right operand
\* of a Binary is of a strictly tighter tier, the left one of the same or a
\* tighter one
well_grouped(e) ==
    IF e.kind = "Binary"
    THEN /\ e.operator.tag \in
               EqualityOps \cup ComparisonOps \cup AdditionOps \cup {"Slash", "Star"}
         /\ tier(e.left) >= tier(e)
         /\ tier(e.right) > tier(e)
         /\ well_grouped(e.left)
         /\ well_grouped(e.right)
    ELSE IF e.kind = "Unary"
    THEN e.operator.tag \in {"Bang", "Minus"} /\ tier(e.operand) >= 5
         /\ well_grouped(e.operand)
    ELSE IF e.kind = "Grouping" THEN well_grouped(e.expr)
    ELSE IF e.kind = "Ternary"
    THEN /\ tier(e.condition) >= 1 /\ well_grouped(e.condition)
         /\ tier(e.true_expr) >= 1 /\ well_grouped(e.true_expr)
         /\ tier(e.false_expr) >= 1 /\ well_grouped(e.false_expr)
    ELSE IF e.kind = "Assign" THEN well_grouped(e.value)
    ELSE TRUE

bare(token) == [tag |-> token.tag, val |-> token.val]

RECURSIVE flatten(_)
\* the tokens an expression was parsed from, in source order
flatten(e) ==
    IF e.kind = "Binary"
    THEN flatten(e.left) \o <<bare(e.operator)>> \o flatten(e.right)
    ELSE IF e.kind = "Unary" THEN <<bare(e.operator)>> \o flatten(e.operand)
    ELSE IF e.kind = "Grouping"
    THEN <<Plain("LeftParen")>> \o flatten(e.expr) \o <<Plain("RightParen")>>
    ELSE IF e.kind = "Ternary"
    THEN flatten(e.condition) \o <<Plain("QuestionMark")>> \o flatten(e.true_expr)
         \o <<Plain("Colon")>> \o flatten(e.false_expr)
    ELSE IF e.kind = "Assign"
    THEN <<bare(e.name), Plain("Equal")>> \o flatten(e.value)
    ELSE IF e.kind = "Variable" THEN <<bare(e.token)>>
    ELSE IF e.value.type = "Number" THEN <<Number(e.value.n)>>
    ELSE IF e.value.type = "STRING" THEN <<StringTok(e.value.s)>>
    ELSE <<Plain(e.value.type)>>

statement_tokens(s) ==
    IF s.kind = "Expr" THEN flatten(s.expr) \o <<Plain("Semicolon")>>
    ELSE IF s.kind = "Print"
    THEN <<Plain("Print")>> \o flatten(s.expr) \o <<Plain("Semicolon")>>
    ELSE <<Plain("Var"), Identifer(s.name)>>
         \o (IF s.initializer = <<>> THEN <<>>
             ELSE <<Plain("Equal")>> \o flatten(s.initializer[1]))
         \o <<Plain("Semicolon")>>

RECURSIVE program_tokens(_)
program_tokens(stmts) ==
    IF stmts = <<>> THEN <<>>
    ELSE statement_tokens(Head(stmts)) \o program_tokens(Tail(stmts))

statement_expr(s) ==
    IF s.kind = "VarDec" THEN s.initializer ELSE <<s.expr>>

tokens_of(src) == scan_tokens(Scanner_new(src)).tokens

ident(c) == Variable(Token("Identifer", <<c>>, 0))

\* parse() has returned the one expression statement e for the text src
parses_to(src, e) ==
    parser.tokens = tokens_of(src) => parser.result = << [ok |-> TRUE, val |-> <<StmtExpr(e)>>] >>

\* C10: a well-formed program (parse() returns its statements and reports
\* nothing) parses to trees that hold its tokens in source order, with
\* tighter tiers deeper (unary, multiplication, addition, comparison,
\* equality) and each tier grouped to the left; so `a + b * c`, `a * b + c`,
\* `a - b - c`, `-x` and `!x` parse to the trees named.
C10_TiersGroupLeft ==
    (parser.pc = "done" /\ parser.result[1].ok /\ stderr = <<>>) =>
        /\ \A k \in 1..Len(parser.stmts) :
              \A e \in {statement_expr(parser.stmts[k])[i] :
                           i \in 1..Len(statement_expr(parser.stmts[k]))} :
                  well_grouped(e)
        /\ program_tokens(parser.stmts) \o <<Plain("EOF")>> =
              [i \in 1..Len(parser.tokens) |-> bare(parser.tokens[i])]
        /\ parses_to(<<"a", " ", "+", " ", "b", " ", "*", " ", "c", ";">>,
              Binary(ident("a"), Token("Plus", <<>>, 0),
                     Binary(ident("b"), Token("Star", <<>>, 0), ident("c"))))
        /\ parses_to(<<"a", " ", "*", " ", "b", " ", "+", " ", "c", ";">>,
              Binary(Binary(ident("a"), Token("Star", <<>>, 0), ident("b")),
                     Token("Plus", <<>>, 0), ident("c")))
        /\ parses_to(<<"a", " ", "-", " ", "b", " ", "-", " ", "c", ";">>,
              Binary(Binary(ident("a"), Token("Minus", <<>>, 0), ident("b")),
                     Token("Minus", <<>>, 0), ident("c")))
        /\ parses_to(<<"-", "x", ";">>, Unary(Token("Minus", <<>>, 0), ident("x")))
        /\ parses_to(<<"!", "x", ";">>, Unary(Token("Bang", <<>>, 0), ident("x")))

\* parse() has returned the tree of `a + b * c`
C10_Witness ==
    /\ parser.pc = "done"
    /\ stderr = <<>>
    /\ parser.result =
          << [ok |-> TRUE,
              val |-> <<StmtExpr(Binary(ident("a"), Token("Plus", <<>>, 0),
                            Binary(ident("b"), Token("Star", <<>>, 0), ident("c"))))>>] >>

(***************************************************************************)
(* Claims about the environment, the interpreter and the session           *)
(***************************************************************************)
undefined_variable(line, name) ==
    <<"[line ", line, "] Error: variable '", name, "' is not defined">>

\* the program run is the one statement `n = e;`, not yet executed, and n is
\* not bound
lone_assignment ==
    /\ session.pc = "interpret"
    /\ interp.ip = 0
    /\ Len(interp.stmts) = 1
    /\ interp.stmts[1].kind = "Expr"
    /\ interp.stmts[1].expr.kind = "Assign"
    /\ interp.stmts[1].expr.name.val \notin DOMAIN interp.environment.globals

\* the run has failed with the undefined-variable error for n, the error of
\* the bare read of n, and n is not bound
fails_undefined ==
    LET n == interp.stmts[1].expr.name
    IN  /\ interp'.result = <<[ok |-> FALSE, val |-> undefined_variable(n.line, n.val)]>>
        /\ interp'.result[1].val = evaluate(interp.environment, Variable(n)).val
        /\ stderr' = Append(stderr, [line |-> -1, message |-> undefined_variable(n.line, n.val)])
        /\ n.val \notin DOMAIN interp'.environment.globals

environment_step ==
    LET g == envcall.env.globals
        h == envcall'.env.globals
        key == envcall'.key
        value == envcall'.value
    IN  /\ DOMAIN g \subseteq DOMAIN h
        /\ DOMAIN h # DOMAIN g => envcall'.op = "define"
        /\ (envcall'.op = "assign" /\ key \notin DOMAIN g) =>
              /\ h = g
              /\ envcall'.result =
                    <<[ok |-> FALSE, val |-> undefined_variable(0, key)]>>
        /\ (envcall'.op = "assign" /\ key \in DOMAIN g) =>
              /\ h = [g EXCEPT ![key] = value[1]]
              /\ envcall'.result = <<[ok |-> TRUE, val |-> value[1]]>>
        /\ envcall'.op = "define" =>
              /\ DOMAIN h = DOMAIN g \cup {key}
              /\ h[key] = (IF value = <<>> THEN LitNil ELSE value[1])
              /\ \A k \in DOMAIN g \ {key} : h[k] = g[k]
              /\ envcall'.result = <<>>
        /\ envcall'.op = "get" => h = g

\* C6: over any sequence of define, assign and get: names are bound only by
\* define; assign on an unbound name returns the not-defined error and
\* leaves the store as it was; assign on a bound name overwrites it and
\* returns the value; define overwrites a bound name without error and binds
\* Nil when given no value; get leaves the store as it was.
C6_EnvironmentOperations == [][environment_step]_vars

\* assign has failed on an unbound name while another name is bound
C6_Witness ==
    /\ envcall.op = "assign"
    /\ ~envcall.result[1].ok
    /\ envcall.key \notin DOMAIN envcall.env.globals
    /\ DOMAIN envcall.env.globals # {}

RECURSIVE assigned_names(_)
\* the names an expression assigns to
assigned_names(e) ==
    IF e.kind = "Assign" THEN {e.name.val} \cup assigned_names(e.value)
    ELSE IF e.kind = "Binary" THEN assigned_names(e.left) \cup assigned_names(e.right)
    ELSE IF e.kind = "Unary" THEN assigned_names(e.operand)
    ELSE IF e.kind = "Grouping" THEN assigned_names(e.expr)
    ELSE IF e.kind = "Ternary"
    THEN assigned_names(e.condition) \cup assigned_names(e.true_expr)
         \cup assigned_names(e.false_expr)
    ELSE {}

\* the execution of statement k = ip + 1 has failed
execution_fails ==
    /\ session.pc = "interpret"
    /\ interp.ip < Len(interp.stmts)
    /\ interp'.result # <<>>
    /\ ~interp'.result[1].ok

\* C8: interpret is fail-fast.  When the execution of statement k fails,
\* interpret returns that error (run writes it to the diagnostic stream), the
\* output and the bindings of the statements before k stay, statement k
\* writes nothing and binds no name (it changes a binding only by an
\* assignment it holds), and the loop is left, so no later statement runs.
C8_InterpretFailFast ==
    [][execution_fails =>
        LET s == interp.stmts[interp.ip + 1]
            g == interp.environment.globals
            h == interp'.environment.globals
        IN  /\ interp'.result[1].val = execute(TheInterpreter, s).val
            /\ (session'.pc = "prompt" =>
                   stderr' = Append(stderr, [line |-> -1, message |-> interp'.result[1].val]))
            /\ interp'.stdout = interp.stdout
            /\ DOMAIN h = DOMAIN g
            /\ \A n \in DOMAIN g :
                  (\A i \in 1..Len(statement_expr(s)) :
                      n \notin assigned_names(statement_expr(s)[i])) => h[n] = g[n]
            /\ interp'.ip = interp.ip
            /\ interp'.stmts = interp.stmts
            /\ session'.pc # "interpret"]_vars

\* a statement has failed after one that printed and before one that did not
\* run
C8_Witness ==
    /\ interp.result # <<>>
    /\ ~interp.result[1].ok
    /\ interp.ip >= 1
    /\ interp.ip + 1 < Len(interp.stmts)
    /\ interp.stdout # <<>>
    /\ session.pc = "prompt"

\* the line read has failed to parse: run has written the aggregate failure
parse_failed ==
    /\ session.pc = "prompt"
    /\ stderr' # stderr
    /\ stderr'[Len(stderr')] = [line |-> -1, message |-> "Parsing error(s) found"]

\* C9: in a session, reading and parsing an input changes no binding and
\* writes no output, so the input is evaluated against the environment the
\* inputs before it left; an input whose parse fails is not evaluated: no
\* statement of it is executed, the bindings and the output stay.
C9_SessionEnvironment ==
    [][/\ session.pc = "prompt" =>
             /\ interp'.environment = interp.environment
             /\ interp'.stdout = interp.stdout
       /\ parse_failed => (session'.pc = "prompt" /\ interp'.stmts = <<>>)
       /\ (session.pc = "interpret" /\ interp'.environment # interp.environment) =>
             (interp.ip < Len(interp.stmts) /\ interp'.stmts = interp.stmts)]_vars

\* the second input of a session has failed to parse, the first one having
\* bound a name and printed
C9_Witness ==
    /\ session.pc = "prompt"
    /\ session.inputs = 2
    /\ stderr # <<>>
    /\ stderr[Len(stderr)] = [line |-> -1, message |-> "Parsing error(s) found"]
    /\ DOMAIN interp.environment.globals # {}

(***************************************************************************)
(* Claims about the evaluation of one expression                           *)
(***************************************************************************)
\* evaluate has returned, and what it returned
evaluated == interp.pc = "returned"

outcome == interp.result[1]

\* messages are texts or texts with parts: compared as written
same_message(m, text) == ToString(m) = ToString(text)

\* the result is Err(message) and the environment is env
fails_with(message, env) ==
    /\ ~outcome.ok
    /\ same_message(outcome.val, message)
    /\ outcome.env = env

TernaryConditionError == "expected a boolean expression as condition in ternary statement"

\* the condition of the ternary evaluated, as evaluated in the environment
\* the ternary was
condition_of_ternary == evaluate(interp.environment, interp.e.condition)

is_boolean(v) == v \in {LitTrue, LitFalse}

\* C12: a Ternary whose condition evaluates to True returns what true_expr
\* returns, to False what false_expr returns; the other branch is not
\* evaluated, so an error or an assignment of the other branch has no effect.
C12_TernaryEvaluatesChosenBranch ==
    (interp.pc # "call" /\ interp.e.kind = "Ternary") =>
        LET c == condition_of_ternary
        IN  (c.ok /\ is_boolean(c.val)) =>
               LET chosen == IF c.val = LitTrue THEN interp.e.true_expr
                             ELSE interp.e.false_expr
                   b == evaluate(c.env, chosen)
               IN  /\ evaluated
                   /\ outcome.ok = b.ok
                   /\ same_message(outcome.val, b.val)
                   /\ outcome.env = b.env

\* true ? "x" : 1/0 is "x"
C12_Witness ==
    /\ evaluated
    /\ interp.e = Ternary(Literal(LitTrue), Literal(LitString(<<"x">>)), DivideByZero)
    /\ outcome.ok
    /\ outcome.val = LitString(<<"x">>)

\* C13: a Ternary whose condition evaluates to a value other than True and
\* False fails with the ternary-condition error, whatever is_truthy says of
\* the value, and neither branch is evaluated.
C13_TernaryConditionNotBoolean ==
    (interp.pc # "call" /\ interp.e.kind = "Ternary") =>
        LET c == condition_of_ternary
        IN  (c.ok /\ ~is_boolean(c.val)) =>
               /\ evaluated
               /\ fails_with(TernaryConditionError, c.env)

\* 1.5 ? 1/0 : (a = 2) with a bound to 1: the ternary error, a still 1
C13_Witness ==
    /\ evaluated
    /\ interp.e = Ternary(Literal(LitNumber(<<3, 2>>)), DivideByZero,
                          Assign(IdentTok("a"), Literal(LitNumber(<<2, 1>>))))
    /\ <<"a">> \in DOMAIN interp.environment.globals
    /\ fails_with(TernaryConditionError, interp.environment)

StringNumberError == "Can not add a 'String' and a 'Number' in addition operation"

\* the operators that take Numbers only, with the text that names each
NumbersOnlyText ==
    ( "Minus" :> <<"-">> @@ "Star" :> <<"*">> @@ "Slash" :> <<"/">>
   @@ "Greater" :> <<">">> @@ "GreaterEqual" :> <<">", "=">>
   @@ "Less" :> <<"<">> @@ "LessEqual" :> <<"<", "=">> )

NumbersExpectedError(op) ==
    <<"Expected operands to be numbers in ", NumbersOnlyText[op], " expression">>

\* a Binary of two literals has been evaluated
binary_of_literals ==
    /\ interp.pc # "call"
    /\ interp.e.kind = "Binary"
    /\ interp.e.left.kind = "Literal"
    /\ interp.e.right.kind = "Literal"

\* C15: + with exactly one Number operand fails with the String/Number
\* message; -, *, /, >, >=, <, <= with an operand that is not a Number fail
\* with the numeric-operand message naming the operator; + on two Strings
\* concatenates.
C15_OperandTypeErrors ==
    binary_of_literals =>
        LET op == interp.e.operator.tag
            l == interp.e.left.value
            r == interp.e.right.value
        IN  /\ (op = "Plus" /\ is_number(l) # is_number(r)) =>
                  evaluated /\ fails_with(StringNumberError, interp.environment)
            /\ (op \in DOMAIN NumbersOnlyText /\ ~(is_number(l) /\ is_number(r))) =>
                  evaluated /\ fails_with(NumbersExpectedError(op), interp.environment)
            /\ (op = "Plus" /\ l.type = "STRING" /\ r.type = "STRING") =>
                  evaluated /\ outcome.ok /\ outcome.val = LitString(l.s \o r.s)

\* "5" + 1.5 has failed with the String/Number message
C15_Witness ==
    /\ evaluated
    /\ interp.e = Binary(Literal(LitString(<<"5">>)), Tok("Plus"), Literal(LitNumber(<<3, 2>>)))
    /\ fails_with(StringNumberError, interp.environment)

(***************************************************************************)
(* Claims about programs run from their text                               *)
(***************************************************************************)
\* the run has returned a result to its caller
returned == session.pc = "returned"

\* Err(message) as the run returns it
Failure(message) == <<[ok |-> FALSE, val |-> message]>>

Success == <<[ok |-> TRUE, val |-> <<>>]>>

\* what the buffer holds after one print of the text
printed(text) == <<text \o <<NL>>>>

\* (a * b) / c of three fractions, c not zero
quotient_of_product(a, b, c) == rat(a[1] * b[1] * c[2], a[2] * b[2] * c[1])

\* C11: `print a * b / c;` writes the text of (a*b)/c and a newline when c
\* is not zero; when c is zero it returns "Divide by zero error" and writes
\* nothing; no division whose right operand is a zero Number yields a value.
C11_DivideByZero ==
    /\ \A a \in TestNumbers, b \in TestNumbers, c \in TestNumbers :
          session.source = MulDivSource(a, b, c) =>
             /\ session.pc \notin {"aborted", "hung"}
             /\ c[1] = 0 => /\ interp.stdout = <<>>
                            /\ returned => session.result = Failure("Divide by zero error")
             /\ c[1] # 0 /\ returned =>
                   /\ session.result = Success
                   /\ interp.stdout = printed(f32_to_string(quotient_of_product(a, b, c)))
    /\ session.source \in ZeroDivisorSources =>
          /\ session.pc \notin {"aborted", "hung"}
          /\ interp.stdout = <<>>
          /\ returned => session.result = Failure("Divide by zero error")

\* a negative product divided by zero: the error returned, nothing written
C11_Witness ==
    /\ session.source = MulDivSource(rat(-1, 2), rat(2, 1), rat(0, 1))
    /\ returned
    /\ session.result = Failure("Divide by zero error")
    /\ interp.stdout = <<>>

\* the sum of two fractions
sum_of(a, b) == rat(a[1] * b[2] + b[1] * a[2], a[2] * b[2])

\* the value bound to the name, <<>> when the name is not bound
bound_to(name) ==
    IF <<name>> \in DOMAIN interp.environment.globals
    THEN <<interp.environment.globals[<<name>>]>>
    ELSE <<>>

\* C14: `var a = X; var b = Y; print a + b;` on a fresh interpreter writes
\* the text of X+Y and one newline: after each declaration the name is bound
\* to the value of its initializer, nothing is written before the print, and
\* the print writes one text ending in one newline.
C14_VariableDeclarations ==
    \A X \in TestNumbers, Y \in TestNumbers :
        session.source = VarSumSource(X, Y) =>
           /\ session.pc \notin {"aborted", "hung"}
           /\ session.pc = "interpret" =>
                 /\ Len(interp.stmts) = 3
                 /\ bound_to("a") = IF interp.ip >= 1 THEN <<LitNumber(X)>> ELSE <<>>
                 /\ bound_to("b") = IF interp.ip >= 2 THEN <<LitNumber(Y)>> ELSE <<>>
                 /\ interp.stdout = IF interp.ip = 3
                                    THEN printed(f32_to_string(sum_of(X, Y)))
                                    ELSE <<>>
           /\ returned =>
                 /\ session.result = Success
                 /\ interp.stdout = printed(f32_to_string(sum_of(X, Y)))

\* -0.5 + 2 printed as 1.5
C14_Witness ==
    /\ session.source = VarSumSource(rat(-1, 2), rat(2, 1))
    /\ returned
    /\ interp.stdout = <<<<"1", ".", "5", NL>>>>

(***************************************************************************)
(* Claims about print_ast                                                  *)
(***************************************************************************)
RECURSIVE outline(_)
\* a tree without its Grouping nodes and without the lines of its tokens
outline(e) ==
    IF e.kind = "Binary"
    THEN Binary(outline(e.left), Plain(e.operator.tag), outline(e.right))
    ELSE IF e.kind = "Unary" THEN Unary(Plain(e.operator.tag), outline(e.operand))
    ELSE IF e.kind = "Grouping" THEN outline(e.expr)
    ELSE IF e.kind = "Ternary"
    THEN Ternary(outline(e.condition), outline(e.true_expr), outline(e.false_expr))
    ELSE IF e.kind = "Assign" THEN Assign(e.name.val, outline(e.value))
    ELSE IF e.kind = "Variable" THEN Variable(e.token.val)
    ELSE e

\* C17: the text print_ast(e) of a tree of Binary, Unary, Grouping and
\* Literal nodes, scanned and parsed as an expression, gives a tree
\* equivalent to e (here: the same tree up to Grouping nodes and the lines of
\* the tokens).
C17_PrintParseRoundTrip ==
    parser.pc = "returned" =>
        /\ parser.result[1].ok
        /\ parser.result[1].at_end
        /\ outline(parser.result[1].val) = outline(parser.e)

(***************************************************************************)
(* Claims about the recovery of the parser                                 *)
(***************************************************************************)
\* C18: parse() terminates on every token sequence ending in EOF: each turn
\* of its loop (declaration(), with synchronize() when it fails) leaves the
\* cursor strictly further than it was, also when the statement that fails
\* starts with class, fun, for, if, while or return.
C18_ParseTurnAdvances ==
    [][ParseDeclaration => parser'.current > parser.current]_vars

\* the statement of this turn of parse(), before any synchronize
this_statement ==
    declaration_stmt([tokens |-> parser.tokens, current |-> parser.current, err |-> stderr])

StatementBoundary == {"Semicolon", "EOF"} \cup StatementStart

\* the first position at or after k that holds a `;`, the EOF or a
\* statement-start keyword
first_boundary(tokens, k) ==
    CHOOSE j \in k..(Len(tokens) - 1) :
        /\ tokens[j + 1].tag \in StatementBoundary
        /\ \A i \in k..(j - 1) : tokens[i + 1].tag \notin StatementBoundary

\* where the cursor is to stand: after the `;`, or at the EOF or the keyword
synchronized_at(tokens, k) ==
    IF tokens[first_boundary(tokens, k) + 1].tag = "Semicolon"
    THEN first_boundary(tokens, k) + 1
    ELSE first_boundary(tokens, k)

\* C19: after a failed declaration synchronize leaves the cursor just after
\* the first `;` at or after the position of the failure, or at the EOF, or
\* at the first statement-start keyword, whichever comes first: what it
\* skips holds none of these and nothing after that point is skipped.
C19_SynchronizeStopsAtBoundary ==
    [][(ParseDeclaration /\ ~this_statement.ok) =>
          /\ parser'.has_parse_error
          /\ parser'.stmts = parser.stmts
          /\ parser'.current = synchronized_at(parser.tokens, this_statement.p.current)]_vars

\* `1 a print 1`: the statement fails at a, and the cursor is left at print
C19_Witness ==
    /\ parser.pc = "loop"
    /\ Len(parser.tokens) = 5
    /\ parser.tokens[1].tag = "Number"
    /\ parser.tokens[2].tag = "Identifer"
    /\ parser.tokens[3].tag = "Print"
    /\ parser.has_parse_error
    /\ parser.current = 2

MissingOperandMessages ==
    { "missing left-hand-side operand for equality expression",
      "missing left-hand-side operand for comparison expression",
      "missing left-hand-side operand for addition expression",
      "missing left-hand-side operand for multiplication expression" }

\* a diagnostic written says that a binary operator has no left operand
missing_operand_reported ==
    \E i \in 1..Len(stderr) : \E m \in MissingOperandMessages :
        same_message(stderr[i].message, m)

\* C20: when a "missing left-hand-side operand" error has been reported for
\* a statement of the input, parse() returns the aggregate parse failure (and
\* so hands no statement to the interpreter).
C20_MissingOperandFailsParse ==
    (parser.pc = "done" /\ missing_operand_reported) =>
        parser.result = <<[ok |-> FALSE, val |-> AggregateFailure]>>

\* ---- Claims about binary operators with no left operand ----

\* the tier of the grammar a leading binary operator belongs to
tier_of(tag) ==
    IF tag \in {"BangEqual", "EqualEqual"} THEN "equality"
    ELSE IF tag \in {"Greater", "GreaterEqual", "Less", "LessEqual"} THEN "comparison"
    ELSE IF tag = "Plus" THEN "addition"
    ELSE "multiplication"

missing_operand_message(level) ==
    IF level = "equality" THEN "missing left-hand-side operand for equality expression"
    ELSE IF level = "comparison"
         THEN "missing left-hand-side operand for comparison expression"
    ELSE IF level = "addition"
         THEN "missing left-hand-side operand for addition expression"
    ELSE "missing left-hand-side operand for multiplication expression"

\* where the expression of the statement under the cursor begins: after the
\* print keyword if there is one, and inside the parentheses that open it
RECURSIVE inside_parentheses(_, _)
inside_parentheses(tokens, k) ==
    IF k < Len(tokens) /\ tokens[k + 1].tag = "LeftParen"
    THEN inside_parentheses(tokens, k + 1)
    ELSE k

expression_start ==
    IF parser.current < Len(parser.tokens)
          /\ parser.tokens[parser.current + 1].tag = "Print"
    THEN inside_parentheses(parser.tokens, parser.current + 1)
    ELSE inside_parentheses(parser.tokens, parser.current)

\* the binary operator the expression of this statement begins with, if any
leading_operator ==
    IF expression_start < Len(parser.tokens)
          /\ parser.tokens[expression_start + 1].tag
                 \in {"BangEqual", "EqualEqual", "Greater", "GreaterEqual", "Less",
                      "LessEqual", "Plus", "Slash", "Star"}
    THEN <<parser.tokens[expression_start + 1]>>
    ELSE <<>>

\* C21: when the expression of a statement begins with one of the binary
\* operators != == > >= < <= + / *, the first diagnostic of the turn is
\* "missing left-hand-side operand for <tier> expression" with the tier of
\* that operator and the line of that token; the turn ends (with a statement
\* or with a parse error) and leaves the cursor past the operator, however
\* many operators follow the first.
C21_LeadingOperatorReported ==
    [][(ParseDeclaration /\ leading_operator # <<>>) =>
          /\ Len(stderr') > Len(stderr)
          /\ stderr'[Len(stderr) + 1].line = leading_operator[1].line
          /\ same_message(stderr'[Len(stderr) + 1].message,
                          missing_operand_message(tier_of(leading_operator[1].tag)))
          /\ parser'.pc = "loop"
          /\ parser'.current > expression_start
          /\ \/ /\ Len(parser'.stmts) = Len(parser.stmts) + 1
                /\ parser'.has_parse_error = parser.has_parse_error
             \/ /\ parser'.stmts = parser.stmts
                /\ parser'.has_parse_error]_vars

\* ( >= + * 1 ; has been parsed: three operators in a row, each reported with
\* its tier and its line, and the statement has failed
C21_Witness ==
    /\ parser.pc = "done"
    /\ Len(parser.tokens) = 7
    /\ parser.tokens[1].tag = "LeftParen"
    /\ parser.tokens[2].tag = "GreaterEqual"
    /\ parser.tokens[3].tag = "Plus"
    /\ parser.tokens[4].tag = "Star"
    /\ Len(stderr) >= 3
    /\ stderr[1].line = 2
    /\ same_message(stderr[1].message, missing_operand_message("comparison"))
    /\ stderr[2].line = 3
    /\ same_message(stderr[2].message, missing_operand_message("addition"))
    /\ stderr[3].line = 4
    /\ same_message(stderr[3].message, missing_operand_message("multiplication"))
    /\ parser.has_parse_error

\* ---- Claims about an assignment to what is not a variable ----

\* the parser where the expression of the statement under the cursor begins
statement_expression ==
    [tokens |-> parser.tokens,
     current |-> IF Parser_peek(ParserLocals) # <<>>
                       /\ Parser_peek(ParserLocals)[1].tag = "Print"
                 THEN parser.current + 1 ELSE parser.current,
     err |-> stderr]

\* L: what stands before the `=`
target == call("ternary", statement_expression, <<>>)

\* L has parsed, is not a Variable, and `=` follows it
invalid_target ==
    /\ target.ok
    /\ target.val.kind # "Variable"
    /\ Parser_peek(target.p) # <<>>
    /\ Parser_peek(target.p)[1].tag = "Equal"

\* R: what stands after the `=`
assigned == call("assignment", [target.p EXCEPT !.current = @ + 1], <<>>)

\* L = R with R well formed and the `;` of the statement after it
invalid_assignment_statement ==
    /\ invalid_target
    /\ assigned.ok
    /\ Parser_peek(assigned.p) # <<>>
    /\ Parser_peek(assigned.p)[1].tag = "Semicolon"

\* the statement the turn is expected to add: L alone
statement_of_target ==
    IF statement_expression.current = parser.current
    THEN StmtExpr(target.val) ELSE StmtPrint(target.val)

\* C22: a statement L = R; (or print L = R;) where L parses to something that
\* is not a Variable and R is well formed: the turn consumes `=`, R and the
\* `;`, writes "invalid assignment target" after the diagnostics of L and R,
\* adds the statement of L alone, and does not set the parse error.
C22_InvalidTargetKeepsLeft ==
    [][(ParseDeclaration /\ invalid_assignment_statement) =>
          /\ parser'.stmts = Append(parser.stmts, statement_of_target)
          /\ parser'.current = assigned.p.current + 1
          /\ ToString(stderr')
                = ToString(eprintln(assigned.p.err, "invalid assignment target"))
          /\ parser'.has_parse_error = parser.has_parse_error]_vars

\* 1 = a; has been parsed: parse() returns Ok with the one statement 1
C22_Witness ==
    /\ parser.pc = "done"
    /\ Len(parser.tokens) = 5
    /\ parser.tokens[1].tag = "Number"
    /\ parser.tokens[2].tag = "Equal"
    /\ parser.tokens[3].tag = "Identifer"
    /\ parser.tokens[4].tag = "Semicolon"
    /\ parser.current = 4
    /\ parser.stmts = <<StmtExpr(Literal(LitNumber(parser.tokens[1].val)))>>
    /\ parser.result = <<[ok |-> TRUE, val |-> parser.stmts]>>
    /\ ~parser.has_parse_error
    /\ Len(stderr) = 1
    /\ stderr[1].line = -1
    /\ same_message(stderr[1].message, "invalid assignment target")

\* ---- Claims about the evaluation of what the parser builds ----

RECURSIVE subexpressions(_)
\* an expression and every expression below it
subexpressions(e) ==
    {e} \cup
    (IF e.kind = "Binary" THEN subexpressions(e.left) \cup subexpressions(e.right)
     ELSE IF e.kind = "Unary" THEN subexpressions(e.operand)
     ELSE IF e.kind = "Grouping" THEN subexpressions(e.expr)
     ELSE IF e.kind = "Ternary"
     THEN subexpressions(e.condition) \cup subexpressions(e.true_expr)
          \cup subexpressions(e.false_expr)
     ELSE IF e.kind = "Assign" THEN subexpressions(e.value)
     ELSE {})

\* the expressions of the statements collected so far
parsed_expressions ==
    UNION {IF parser.stmts[i].kind = "VarDec"
           THEN {parser.stmts[i].initializer[j] :
                    j \in 1..Len(parser.stmts[i].initializer)}
           ELSE {parser.stmts[i].expr} : i \in 1..Len(parser.stmts)}

\* the result is the panic of unreachable!() or the error of the last arm of
\* the match of the Unary arm
unhandled(r) ==
    /\ ~r.ok
    /\ \/ /\ r.panicked
          /\ same_message(r.val, "internal error: entered unreachable code")
       \/ \E i \in 1..Len(parser.tokens) :
             same_message(r.val, <<"Did not expected ", parser.tokens[i].tag,
                                   " in unary expression">>)

\* C23: in the statements parse() collects, every Binary node carries one of
\* the ten operators - / * + > >= < <= == != and every Unary node carries - or
\* !; for the operator of each node every pair (every one) of operand values
\* of the five variants is handled by an arm that gives a value or a runtime
\* error, and evaluating each expression parsed never reaches unreachable!()
\* nor the "Did not expected" arm.
C23_ParsedOperatorsAreHandled ==
    /\ \A e \in UNION {subexpressions(x) : x \in parsed_expressions} :
          /\ e.kind = "Binary" =>
                /\ e.operator.tag \in
                      {"Minus", "Slash", "Star", "Plus", "Greater", "GreaterEqual",
                       "Less", "LessEqual", "EqualEqual", "BangEqual"}
                /\ \A l \in EvalValues, r \in EvalValues :
                      ~unhandled(binary_match(e.operator.tag, l, r, Environment_new))
          /\ e.kind = "Unary" =>
                /\ e.operator.tag \in {"Minus", "Bang"}
                /\ \A v \in EvalValues :
                      ~unhandled(unary_match(e.operator.tag, v, Environment_new))
    /\ \A x \in parsed_expressions : \A env \in EvalEnvironments :
          ~unhandled(evaluate(env, x))

\* -1 - -2; has been parsed to a Binary over two Unary nodes, which
\* evaluates to 1
C23_Witness ==
    /\ parser.pc = "done"
    /\ Len(parser.stmts) = 1
    /\ parser.stmts[1].kind = "Expr"
    /\ parser.stmts[1].expr.kind = "Binary"
    /\ parser.stmts[1].expr.operator.tag = "Minus"
    /\ parser.stmts[1].expr.left.kind = "Unary"
    /\ parser.stmts[1].expr.right.kind = "Unary"
    /\ parser.stmts[1].expr.right.operator.tag = "Minus"
    /\ parser.stmts[1].expr.right.operand = Literal(LitNumber(<<2, 1>>))
    /\ evaluate(Environment_new, parser.stmts[1].expr).ok
    /\ evaluate(Environment_new, parser.stmts[1].expr).val = LitNumber(<<1, 1>>)

====
